---- MODULE Spec2Model ----
(***************************************************************************)
(* Model of the drill-down rejection report of rejection_analysis/api.py:  *)
(* normalize_defect_type, _get_unified_rejection_data and                 *)
(* _get_product_grouped_pivot_data.                                       *)
(*                                                                         *)
(* Python and SQL strings are sequences of one-character strings, so that  *)
(* substring tests, splitting and id formatting are computed as the code   *)
(* computes them.  The short defect codes returned by the normalizer, the  *)
(* row types and the dictionary keys of the output rows are TLA+ strings.  *)
(* A NULL / None string and the empty string are both << >>: the code      *)
(* tests them with "not x" / "x or default", which treats them alike.      *)
(* Quantities are naturals; a rate is kept in hundredths of a percent.     *)
(*                                                                         *)
(* Spec is one call of get_drill_down_pivot_report over the documents of   *)
(* DocInputs; SpecLot is the same call over one document whose lot number  *)
(* ranges over LotInputs; SpecNorm applies normalize_defect_type to the    *)
(* labels of LabelInputs and then to the code it returned.                 *)
(***************************************************************************)
EXTENDS Integers, Sequences, FiniteSets, TLC

VARIABLES
  pc,                      \* position of the report call
  db,                      \* the documents of the two inspection tables, in query order
  data,                    \* rows returned by _get_unified_rejection_data
  idx,                     \* number of rows the aggregation loop has consumed
  product_groups,          \* the nested dictionaries of the aggregation
  all_normalized_defects,  \* set of defect codes seen
  result,                  \* value returned by _get_product_grouped_pivot_data
  norm,                    \* a run of normalize_defect_type on its own
  earlier,                 \* input and return value the caller kept of an earlier call
  filters,                 \* the filters get_drill_down_pivot_report is called with
  configs,                 \* table Rejection Threshold Configuration, in query order
  cars,                    \* table Corrective Action Report, in insertion order
  reports,                 \* table Daily Rejection Report, in insertion order
  procs                    \* the whitelisted call each request worker is running

siteVars == <<configs, cars, reports, procs>>

vars ==
  <<pc, db, data, idx, product_groups, all_normalized_defects, result, norm, earlier,
    filters, configs, cars, reports, procs>>

(***************************** bounds ***************************************)
\* documents selected by one report query
MaxRecords == 2
\* characters of a lot number
MaxLotLen == 5

(***************************** strings **************************************)
LowerLetters == <<"a","b","c","d","e","f","g","h","i","j","k","l","m","n","o","p","q","r","s","t","u","v","w","x","y","z">>
UpperLetters == <<"A","B","C","D","E","F","G","H","I","J","K","L","M","N","O","P","Q","R","S","T","U","V","W","X","Y","Z">>

\* str.upper() on one character
UpperChar(c) ==
  IF \E i \in 1..26 : LowerLetters[i] = c
  THEN UpperLetters[CHOOSE i \in 1..26 : LowerLetters[i] = c]
  ELSE c

\* variant of Upper that leaves the case as it is (mutation of C19)
UpperAsIs(s) == s

\* str.upper()
Upper(s) == [i \in 1..Len(s) |-> UpperChar(s[i])]

\* str.strip(): leading and trailing blanks removed
Strip(s) ==
  LET keep == {i \in 1..Len(s) : s[i] # " "}
  IN  IF keep = {} THEN << >>
      ELSE LET lo == CHOOSE i \in keep : \A j \in keep : i <= j
               hi == CHOOSE i \in keep : \A j \in keep : j <= i
           IN  SubSeq(s, lo, hi)

\* k occurs in s at position i
OccursAt(s, k, i) == i >= 1 /\ i + Len(k) - 1 <= Len(s) /\ SubSeq(s, i, i + Len(k) - 1) = k

\* Python "k in s", SQL s LIKE '%k%'
Contains(s, k) == \E i \in 1..(Len(s) - Len(k) + 1) : OccursAt(s, k, i)

\* any(keyword in s for keyword in ks)
ContainsAny(s, ks) == \E k \in ks : Contains(s, k)

\* str.endswith
EndsWith(s, k) == Len(k) <= Len(s) /\ SubSeq(s, Len(s) - Len(k) + 1, Len(s)) = k

\* position of the first (last) occurrence of k in s, 0 when there is none
FirstIndex(s, k) ==
  IF Contains(s, k)
  THEN CHOOSE i \in 1..Len(s) : OccursAt(s, k, i) /\ \A j \in 1..(i - 1) : ~OccursAt(s, k, j)
  ELSE 0

LastIndex(s, k) ==
  IF Contains(s, k)
  THEN CHOOSE i \in 1..Len(s) : OccursAt(s, k, i) /\ \A j \in (i + 1)..Len(s) : ~OccursAt(s, k, j)
  ELSE 0

\* str.split(sep, 1): one or two pieces
SplitOnce(s, sep) ==
  LET i == FirstIndex(s, sep)
  IN  IF i = 0 THEN <<s>>
      ELSE <<SubSeq(s, 1, i - 1), SubSeq(s, i + Len(sep), Len(s))>>

\* str.split(sep)
RECURSIVE Split(_, _)
Split(s, sep) ==
  LET i == FirstIndex(s, sep)
  IN  IF i = 0 THEN <<s>>
      ELSE <<SubSeq(s, 1, i - 1)>> \o Split(SubSeq(s, i + Len(sep), Len(s)), sep)

\* sum of a sequence of numbers
RECURSIVE SeqSum(_)
SeqSum(q) == IF q = << >> THEN 0 ELSE q[1] + SeqSum(Tail(q))

(*********************** normalize_defect_type ******************************)
\* the codes normalize_defect_type can return
Catalog ==
  {"DT", "BD", "BK", "BL", "BM", "BN", "BO", "BU", "CM", "CV", "DF", "DP",
   "F", "FP", "SD", "SH", "T", "TM", "UF", "OTH"}

\* the text of a code, as a string the normalizer can read again
CodeText ==
  [c \in Catalog |->
     CASE c = "DT" -> <<"D","T">> [] c = "BD" -> <<"B","D">> [] c = "BK" -> <<"B","K">>
       [] c = "BL" -> <<"B","L">> [] c = "BM" -> <<"B","M">> [] c = "BN" -> <<"B","N">>
       [] c = "BO" -> <<"B","O">> [] c = "BU" -> <<"B","U">> [] c = "CM" -> <<"C","M">>
       [] c = "CV" -> <<"C","V">> [] c = "DF" -> <<"D","F">> [] c = "DP" -> <<"D","P">>
       [] c = "F" -> <<"F">> [] c = "FP" -> <<"F","P">> [] c = "SD" -> <<"S","D">>
       [] c = "SH" -> <<"S","H">> [] c = "T" -> <<"T">> [] c = "TM" -> <<"T","M">>
       [] c = "UF" -> <<"U","F">> [] c = "OTH" -> <<"O","T","H">>]

normalize_defect_type(defect_type) ==
  IF defect_type = << >> THEN "OTH"
  ELSE
  LET defect_upper == Strip(Upper(defect_type))
  IN  IF Contains(defect_upper, <<"D","E","F","E","C","T">>)
           /\ ~ContainsAny(defect_upper, {<<"S","U","R","F","A","C","E">>, <<"S","T","A","I","N">>}) THEN "DT"
      ELSE IF ContainsAny(defect_upper, {<<"B","E","N","D">>, <<"B","D">>}) THEN "BD"
      ELSE IF ContainsAny(defect_upper, {<<"B","A","C","K","R","I","N","D">>, <<"B","K">>}) THEN "BK"
      ELSE IF ContainsAny(defect_upper, {<<"B","L","I","S","T","E","R">>, <<"B","L">>})
                /\ ~Contains(defect_upper, <<"B","U","B","B","L","E">>) THEN "BL"
      ELSE IF ContainsAny(defect_upper, {<<"B","L","A","C","K"," ","M","A","R","K">>, <<"B","M">>}) THEN "BM"
      ELSE IF ContainsAny(defect_upper, {<<"B","U","N","E">>, <<"B","N">>}) THEN "BN"
      ELSE IF ContainsAny(defect_upper, {<<"B","O","N","D","I","N","G">>, <<"B","O","N","D">>, <<"B","O">>}) THEN "BO"
      ELSE IF ContainsAny(defect_upper, {<<"B","U","B","B","L","E">>, <<"B","U">>}) THEN "BU"
      ELSE IF ContainsAny(defect_upper, {<<"C","U","T"," ","M","A","R","K">>, <<"C","M">>}) THEN "CM"
      ELSE IF ContainsAny(defect_upper, {<<"C","O","L","O","U","R"," ","V","A","R","I","A","T","I","O","N">>, <<"C","V">>}) THEN "CV"
      ELSE IF ContainsAny(defect_upper, {<<"D","E","F","L","A","S","H">>, <<"D","F">>}) THEN "DF"
      ELSE IF ContainsAny(defect_upper, {<<"D","I","P","R","E","S","S","I","O","N">>, <<"D","P">>}) THEN "DP"
      ELSE IF ContainsAny(defect_upper, {<<"F","L","O","W">>, <<"F","L">>, <<" ","F"," ">>})
                \/ EndsWith(defect_upper, <<" ","F">>) THEN "F"
      ELSE IF ContainsAny(defect_upper, {<<"F","O","R","E","I","G","N"," ","P","A","R","T","I","C","L","E">>, <<"F","P">>}) THEN "FP"
      ELSE IF ContainsAny(defect_upper, {<<"S","T","A","I","N">>, <<"S","U","R","F","A","C","E"," ","D","E","F","E","C","T">>, <<"S","D">>}) THEN "SD"
      ELSE IF ContainsAny(defect_upper, {<<"C","E","L","L">>, <<"S","H","E","L","L">>, <<"D","A","M","A","G","E">>, <<"S","H">>}) THEN "SH"
      ELSE IF ContainsAny(defect_upper, {<<"B","U","R","S","T">>, <<"T","E","A","R">>, <<" ","T"," ">>})
                \/ defect_upper = <<"T">> THEN "T"
      ELSE IF ContainsAny(defect_upper, {<<"T","O","O","L"," ","M","A","R","K">>, <<"T","M">>}) THEN "TM"
      ELSE IF ContainsAny(defect_upper, {<<"U","N","D","E","R"," ","F","I","L","L">>, <<"U","F">>}) THEN "UF"
      ELSE "OTH"

(******************* _get_unified_rejection_data ****************************)
\* SUBSTRING_INDEX(s, d, 1): the text before the first d, all of s without d
SubstringIndexFirst(s, d) ==
  LET i == FirstIndex(s, d) IN IF i = 0 THEN s ELSE SubSeq(s, 1, i - 1)

\* SUBSTRING_INDEX(s, d, -1): the text after the last d, all of s without d
SubstringIndexLast(s, d) ==
  LET i == LastIndex(s, d) IN IF i = 0 THEN s ELSE SubSeq(s, i + Len(d), Len(s))

\* the sublot_number column of the two SELECTs
SqlSublotNumber(source_type, lot_no) ==
  IF source_type = "SPP Inspection Entry"
  THEN IF Contains(lot_no, <<"-">>) THEN SubstringIndexLast(lot_no, <<"-">>) ELSE <<"1">>
  ELSE IF Contains(lot_no, <<"-">>) THEN SubstringIndexLast(lot_no, <<"-">>)
       ELSE IF Contains(lot_no, <<"/">>) THEN SubstringIndexLast(lot_no, <<"/">>)
       ELSE <<"1">>

\* the main_lot column of the two SELECTs
SqlMainLot(source_type, lot_no) ==
  IF source_type = "SPP Inspection Entry"
  THEN IF Contains(lot_no, <<"-">>) THEN SubstringIndexFirst(lot_no, <<"-">>) ELSE lot_no
  ELSE IF Contains(lot_no, <<"-">>) THEN SubstringIndexFirst(lot_no, <<"-">>)
       ELSE IF Contains(lot_no, <<"/">>) THEN SubstringIndexFirst(lot_no, <<"/">>)
       ELSE lot_no

Digits == <<"0","1","2","3","4","5","6","7","8","9">>

\* a quantity as CONCAT renders it
RECURSIVE DecimalText(_)
DecimalText(n) ==
  IF n < 10 THEN <<Digits[n + 1]>>
  ELSE DecimalText(n \div 10) \o <<Digits[(n % 10) + 1]>>

\* GROUP_CONCAT(CONCAT(type_of_defect, ':', rejected_qty) SEPARATOR '; ');
\* NULL (here << >>) when the document has no item
RECURSIVE GroupConcat(_)
GroupConcat(items) ==
  IF items = << >> THEN << >>
  ELSE LET one == items[1].type_of_defect \o <<":">> \o DecimalText(items[1].rejected_qty)
       IN  IF Len(items) = 1 THEN one
           ELSE one \o <<";"," ">> \o GroupConcat(Tail(items))

\* COALESCE(SUM(rejected_qty), 0) over the items of a document
RECURSIVE SumRejected(_)
SumRejected(items) ==
  IF items = << >> THEN 0 ELSE items[1].rejected_qty + SumRejected(Tail(items))

\* one row of the UNION ALL, from the document at position i of the result
SqlRow(doc, i) ==
  [source_type     |-> doc.source_type,
   inspection_type |-> IF doc.source_type = "SPP Inspection Entry"
                       THEN "Final Visual Inspection" ELSE doc.inspection_type,
   document_name   |-> i,
   lot_no          |-> doc.lot_no,
   item_code       |-> doc.product_ref_no,
   posting_date    |-> doc.posting_date,
   inspector_code  |-> doc.inspector_code,
   inspected_qty   |-> doc.inspected_qty,
   rejected_qty    |-> SumRejected(doc.items),
   sublot_number   |-> SqlSublotNumber(doc.source_type, doc.lot_no),
   main_lot        |-> SqlMainLot(doc.source_type, doc.lot_no),
   defect_details  |-> GroupConcat(doc.items),
   rejection_cost  |-> doc.rejection_cost]

\* nowdate(), dates being day numbers
Today == 20250110

\* no filter given: 0 for no date, the empty text for no value
NoFilters ==
  [from_date |-> 0, to_date |-> 0, item_code |-> << >>, inspector |-> "",
   inspection_type |-> ""]

\* if not filters.get('from_date'): ... add_days(nowdate(), -30); to_date: nowdate()
WithDefaultDates(f) ==
  [f EXCEPT !.from_date = IF @ = 0 THEN Today - 30 ELSE @,
            !.to_date   = IF @ = 0 THEN Today ELSE @]

\* the WHERE clause of the SPP query with spp_cond
SppCondition(doc, f) ==
  /\ f.from_date # 0 => doc.posting_date >= f.from_date
  /\ f.to_date # 0 => doc.posting_date <= f.to_date
  /\ f.item_code # << >> => doc.product_ref_no = f.item_code
  /\ f.inspection_type # "" => f.inspection_type = "Final Visual Inspection"

\* the WHERE clause of the Inspection Entry query with ie_cond
IeCondition(doc, f) ==
  /\ f.from_date # 0 => doc.posting_date >= f.from_date
  /\ f.to_date # 0 => doc.posting_date <= f.to_date
  /\ f.item_code # << >> => doc.product_ref_no = f.item_code
  /\ f.inspection_type # "" => doc.inspection_type = f.inspection_type

\* the documents of the tables the two queries select
SelectDocs(docs, f) ==
  SelectSeq(docs, LAMBDA doc : IF doc.source_type = "SPP Inspection Entry"
                               THEN SppCondition(doc, f) ELSE IeCondition(doc, f))

_get_unified_rejection_data(docs) == [i \in 1..Len(docs) |-> SqlRow(docs[i], i)]

(****************** _get_product_grouped_pivot_data *************************)
\* frappe.utils.flt on a string: its number, 0.0 when it is not one
IsDigit(c) == \E i \in 1..10 : Digits[i] = c
DigitValue(c) == (CHOOSE i \in 1..10 : Digits[i] = c) - 1

RECURSIVE DecimalValue(_)
DecimalValue(s) ==
  IF s = << >> THEN 0
  ELSE 10 * DecimalValue(SubSeq(s, 1, Len(s) - 1)) + DigitValue(s[Len(s)])

flt(s) ==
  LET t == Strip(s)
  IN  IF t # << >> /\ \A i \in 1..Len(t) : IsDigit(t[i]) THEN DecimalValue(t) ELSE 0

\* variant of ParsePairs that counts a label holding BUBBLE under BU as well as
\* under the code of an earlier group (mutation of C12)
RECURSIVE ParsePairsEveryGroup(_)
ParsePairsEveryGroup(pairs) ==
  IF pairs = << >> THEN << >>
  ELSE LET rest == ParsePairsEveryGroup(Tail(pairs))
       IN  IF Contains(pairs[1], <<":">>)
           THEN LET dq == SplitOnce(pairs[1], <<":">>)
                    first == [code |-> normalize_defect_type(dq[1]), val |-> flt(dq[2])]
                IN  IF Contains(Upper(dq[1]), <<"B","U","B","B","L","E">>) /\ first.code # "BU"
                    THEN <<first, [code |-> "BU", val |-> flt(dq[2])]>> \o rest
                    ELSE <<first>> \o rest
           ELSE rest

\* the (code, quantity) pairs the loop over defect_details.split('; ') adds
RECURSIVE ParsePairs(_)
ParsePairs(pairs) ==
  IF pairs = << >> THEN << >>
  ELSE LET rest == ParsePairs(Tail(pairs))
       IN  IF Contains(pairs[1], <<":">>)
           THEN LET dq == SplitOnce(pairs[1], <<":">>)
                IN  <<[code |-> normalize_defect_type(dq[1]), val |-> flt(dq[2])]>> \o rest
           ELSE rest

ParsedDefects(defect_details) ==
  IF defect_details = << >> THEN << >> ELSE ParsePairs(Split(defect_details, <<";"," ">>))

\* variant of AddDefects that stores the quantity of the last pair of a code
\* (mutation of C20)
RECURSIVE AddDefectsOverwriting(_, _)
AddDefectsOverwriting(d, pairs) ==
  IF pairs = << >> THEN d
  ELSE LET c == pairs[1].code
           v == pairs[1].val
           d1 == IF c \in DOMAIN d THEN [d EXCEPT ![c] = v] ELSE (c :> v) @@ d
       IN  AddDefectsOverwriting(d1, Tail(pairs))

\* variant of AddDefects that keeps the quantity of the first pair of a code
\* (mutation of C21)
RECURSIVE AddDefectsFirstKept(_, _)
AddDefectsFirstKept(d, pairs) ==
  IF pairs = << >> THEN d
  ELSE LET c == pairs[1].code
           v == pairs[1].val
           d1 == IF c \in DOMAIN d THEN d ELSE (c :> v) @@ d
       IN  AddDefectsFirstKept(d1, Tail(pairs))

\* d[norm] = d.get(norm, 0) + val, for every parsed pair in turn
RECURSIVE AddDefects(_, _)
AddDefects(d, pairs) ==
  IF pairs = << >> THEN d
  ELSE LET c == pairs[1].code
           v == pairs[1].val
           d1 == IF c \in DOMAIN d THEN [d EXCEPT ![c] = @ + v] ELSE (c :> v) @@ d
       IN  AddDefects(d1, Tail(pairs))

NoDefects == [c \in {} |-> 0]

\* position of key k in an insertion-ordered dictionary, 0 when absent
KeyIndex(dict, k) ==
  IF \E i \in 1..Len(dict) : dict[i].key = k
  THEN CHOOSE i \in 1..Len(dict) : dict[i].key = k
  ELSE 0

\* variant of sublot_key that forgets the sub-lot number (mutation of C6)
sublot_key_without_sublot(main_lot, sublot) == main_lot

sublot_key(main_lot, sublot) == main_lot \o <<"_">> \o sublot

NewProductGroup(product) ==
  [key |-> product, total_inspected |-> 0, total_rejected |-> 0, total_cost |-> 0,
   main_lots |-> << >>, defects |-> NoDefects]

NewMainLotGroup(main_lot) ==
  [key |-> main_lot, total_inspected |-> 0, total_rejected |-> 0, total_cost |-> 0,
   sublots |-> << >>, defects |-> NoDefects]

\* variant of NewSublot that keeps the sub-lot key in place of the record's
\* lot_no (mutation of C18)
NewSublotLotNoFromKey(key, row) ==
  [key |-> key, lot_no |-> key, inspected_qty |-> 0, rejected_qty |-> 0,
   rejection_cost |-> 0, defects |-> NoDefects, posting_date |-> row.posting_date,
   inspector_code |-> row.inspector_code, inspection_type |-> row.inspection_type,
   document_name |-> row.document_name, source_type |-> row.source_type]

NewSublot(key, row) ==
  [key |-> key, lot_no |-> row.lot_no, inspected_qty |-> 0, rejected_qty |-> 0,
   rejection_cost |-> 0, defects |-> NoDefects, posting_date |-> row.posting_date,
   inspector_code |-> row.inspector_code, inspection_type |-> row.inspection_type,
   document_name |-> row.document_name, source_type |-> row.source_type]

\* the body of "for row in data"
ProcessRowInto(groups, row) ==
  LET product  == IF row.item_code = << >> THEN <<"U","n","k","n","o","w","n">> ELSE row.item_code
      main_lot == IF row.main_lot = << >> THEN <<"U","n","k","n","o","w","n">> ELSE row.main_lot
      sublot   == row.sublot_number
      g1 == IF KeyIndex(groups, product) = 0
            THEN Append(groups, NewProductGroup(product)) ELSE groups
      p  == KeyIndex(g1, product)
      m1 == IF KeyIndex(g1[p].main_lots, main_lot) = 0
            THEN Append(g1[p].main_lots, NewMainLotGroup(main_lot)) ELSE g1[p].main_lots
      m  == KeyIndex(m1, main_lot)
      sk == sublot_key(main_lot, sublot)
      s1 == IF KeyIndex(m1[m].sublots, sk) = 0
            THEN Append(m1[m].sublots, NewSublot(sk, row)) ELSE m1[m].sublots
      s  == KeyIndex(s1, sk)
      qty_inspected == row.inspected_qty
      qty_rejected  == row.rejected_qty
      cost  == row.rejection_cost
      pairs == ParsedDefects(row.defect_details)
      s_data  == [s1[s] EXCEPT !.inspected_qty = @ + qty_inspected,
                               !.rejected_qty = @ + qty_rejected,
                               !.rejection_cost = @ + cost,
                               !.defects = AddDefects(@, pairs)]
      m_group == [m1[m] EXCEPT !.total_inspected = @ + qty_inspected,
                               !.total_rejected = @ + qty_rejected,
                               !.total_cost = @ + cost,
                               !.sublots = [s1 EXCEPT ![s] = s_data],
                               !.defects = AddDefects(@, pairs)]
      p_group == [g1[p] EXCEPT !.total_inspected = @ + qty_inspected,
                               !.total_rejected = @ + qty_rejected,
                               !.total_cost = @ + cost,
                               !.main_lots = [m1 EXCEPT ![m] = m_group],
                               !.defects = AddDefects(@, pairs)]
  IN  [g1 EXCEPT ![p] = p_group]

\* the codes all_normalized_defects.add(norm) adds for a row
RowCodes(row) ==
  LET pairs == ParsedDefects(row.defect_details)
  IN  {pairs[i].code : i \in 1..Len(pairs)}

\* round(n / d, 0) as Python rounds: to the nearest, a tie to the even one
RoundDiv(n, d) ==
  LET q == n \div d
      r == n % d
  IN  IF 2 * r < d THEN q
      ELSE IF 2 * r > d THEN q + 1
      ELSE IF q % 2 = 0 THEN q ELSE q + 1

\* round((rejected / inspected * 100), 2) if inspected > 0 else 0, in hundredths
Rate(rejected, inspected) ==
  IF inspected > 0 THEN RoundDiv(rejected * 10000, inspected) ELSE 0

\* sorted(list(all_normalized_defects)): Python orders strings by code point
CatalogSorted ==
  <<"BD", "BK", "BL", "BM", "BN", "BO", "BU", "CM", "CV", "DF", "DP", "DT",
    "F", "FP", "OTH", "SD", "SH", "T", "TM", "UF">>

\* variant of SortedDefects that lists the whole catalog when no defect was seen
\* (mutation of C13)
SortedDefectsOrAll(codes) ==
  IF codes = {} THEN CatalogSorted ELSE SelectSeq(CatalogSorted, LAMBDA c : c \in codes)

\* variant of SortedDefects that sorts in descending order (mutation of C14)
SortedDefectsDescending(codes) ==
  SelectSeq([i \in 1..Len(CatalogSorted) |-> CatalogSorted[Len(CatalogSorted) + 1 - i]],
            LAMBDA c : c \in codes)

SortedDefects(codes) == SelectSeq(CatalogSorted, LAMBDA c : c \in codes)

\* variant of ProductRow whose rate adds up the main lots' rates (mutation of C4)
ProductRowSummedRates(p_data) ==
  p_data.defects @@
  [id             |-> <<"p","_">> \o p_data.key,
   type           |-> "product",
   product_code   |-> p_data.key,
   label          |-> p_data.key,
   inspected      |-> p_data.total_inspected,
   rejected       |-> p_data.total_rejected,
   rejection_cost |-> p_data.total_cost,
   rate           |-> SeqSum([i \in 1..Len(p_data.main_lots) |->
                               Rate(p_data.main_lots[i].total_rejected,
                                    p_data.main_lots[i].total_inspected)])]

\* {..., **defects}: the defect counts become keys of the row itself
ProductRow(p_data) ==
  p_data.defects @@
  [id             |-> <<"p","_">> \o p_data.key,
   type           |-> "product",
   product_code   |-> p_data.key,
   label          |-> p_data.key,
   inspected      |-> p_data.total_inspected,
   rejected       |-> p_data.total_rejected,
   rejection_cost |-> p_data.total_cost,
   rate           |-> Rate(p_data.total_rejected, p_data.total_inspected)]

MainLotRow(product, ml_data) ==
  ml_data.defects @@
  [id             |-> <<"m","l","_">> \o product \o <<"_">> \o ml_data.key,
   parentId       |-> <<"p","_">> \o product,
   type           |-> "main_lot",
   product_code   |-> product,
   main_lot       |-> ml_data.key,
   label          |-> ml_data.key,
   inspected      |-> ml_data.total_inspected,
   rejected       |-> ml_data.total_rejected,
   rejection_cost |-> ml_data.total_cost,
   rate           |-> Rate(ml_data.total_rejected, ml_data.total_inspected)]

\* variant of SublotRow whose parentId leaves the product out (mutation of C8)
SublotRowParentWithoutProduct(product, ml, sl_data) ==
  sl_data.defects @@
  [id              |-> <<"s","l","_">> \o product \o <<"_">> \o sl_data.key,
   parentId        |-> <<"m","l","_">> \o ml,
   type            |-> "sublot",
   product_code    |-> product,
   main_lot        |-> ml,
   lot_no          |-> sl_data.lot_no,
   label           |-> sl_data.lot_no,
   inspected       |-> sl_data.inspected_qty,
   rejected        |-> sl_data.rejected_qty,
   rejection_cost  |-> sl_data.rejection_cost,
   rate            |-> Rate(sl_data.rejected_qty, sl_data.inspected_qty),
   inspector       |-> sl_data.inspector_code,
   inspection_type |-> sl_data.inspection_type,
   date            |-> sl_data.posting_date]

SublotRow(product, ml, sl_data) ==
  sl_data.defects @@
  [id              |-> <<"s","l","_">> \o product \o <<"_">> \o sl_data.key,
   parentId        |-> <<"m","l","_">> \o product \o <<"_">> \o ml,
   type            |-> "sublot",
   product_code    |-> product,
   main_lot        |-> ml,
   lot_no          |-> sl_data.lot_no,
   label           |-> sl_data.lot_no,
   inspected       |-> sl_data.inspected_qty,
   rejected        |-> sl_data.rejected_qty,
   rejection_cost  |-> sl_data.rejection_cost,
   rate            |-> Rate(sl_data.rejected_qty, sl_data.inspected_qty),
   inspector       |-> sl_data.inspector_code,
   inspection_type |-> sl_data.inspection_type,
   date            |-> sl_data.posting_date]

\* the three nested loops that fill rows
RECURSIVE SublotRows(_, _, _)
SublotRows(product, ml, sublots) ==
  IF sublots = << >> THEN << >>
  ELSE <<SublotRow(product, ml, sublots[1])>> \o SublotRows(product, ml, Tail(sublots))

RECURSIVE MainLotRows(_, _)
MainLotRows(product, main_lots) ==
  IF main_lots = << >> THEN << >>
  ELSE <<MainLotRow(product, main_lots[1])>>
       \o SublotRows(product, main_lots[1].key, main_lots[1].sublots)
       \o MainLotRows(product, Tail(main_lots))

RECURSIVE FlattenRows(_)
FlattenRows(groups) ==
  IF groups = << >> THEN << >>
  ELSE <<ProductRow(groups[1])>>
       \o MainLotRows(groups[1].key, groups[1].main_lots)
       \o FlattenRows(Tail(groups))

RECURSIVE SumInspected(_)
SumInspected(groups) ==
  IF groups = << >> THEN 0 ELSE groups[1].total_inspected + SumInspected(Tail(groups))

RECURSIVE SumRejectedTotals(_)
SumRejectedTotals(groups) ==
  IF groups = << >> THEN 0 ELSE groups[1].total_rejected + SumRejectedTotals(Tail(groups))

\* variant of Summary that leaves the "Unknown" product out (mutation of C2)
SummaryWithoutUnknown(groups) ==
  LET known == SelectSeq(groups, LAMBDA g : g.key # <<"U","n","k","n","o","w","n">>)
  IN  [total_products  |-> Len(groups),
       total_inspected |-> SumInspected(known),
       total_rejected  |-> SumRejectedTotals(known)]

Summary(groups) ==
  [total_products  |-> Len(groups),
   total_inspected |-> SumInspected(groups),
   total_rejected  |-> SumRejectedTotals(groups)]

(**************************** inputs ****************************************)
\* one document of tabSPP Inspection Entry / tabInspection Entry with its items
Doc(source_type, product, lot_no, inspected, cost, items) ==
  [source_type    |-> source_type,
   inspection_type |-> "Lot Inspection",
   product_ref_no |-> product,
   lot_no         |-> lot_no,
   posting_date   |-> 20250101,
   inspector_code |-> "INS-1",
   inspected_qty  |-> inspected,
   rejection_cost |-> cost,
   items          |-> items]

Item(label, qty) == [type_of_defect |-> label, rejected_qty |-> qty]

\* (product code, lot number) of the documents: two sub-lots of one main lot, two
\* products whose codes and lots hold the "_" the ids are joined with, and a
\* document with neither product code nor lot number
Places ==
  {<<<<"A">>, <<"C","-","1">>>>, <<<<"A">>, <<"C","-","2">>>>, <<<<"A","_","B">>, <<"C","-","1">>>>, <<<<"A">>, <<"B","_","C","-","1">>>>,
   <<<<>>, <<>>>>}

InspectedValues == {0, 3}

\* (items, rejection cost) of the documents
Rejections ==
  {<<<< >>, 0>>,
   <<<<Item(<<"B","e","n","d">>, 1)>>, 5>>,
   <<<<Item(<<"B","u","b","b","l","e">>, 1), Item(<<"T","e","a","r">>, 1)>>, 0>>}

DocInputs ==
  {Doc("Inspection Entry", pl[1], pl[2], q, r[2], r[1]) :
     pl \in Places, q \in InspectedValues, r \in Rejections}

\* the lists of at most n elements of S
RECURSIVE SeqsUpTo(_, _)
SeqsUpTo(S, n) ==
  IF n = 0 THEN {<< >>}
  ELSE LET shorter == SeqsUpTo(S, n - 1)
       IN  shorter \cup {Append(q, x) : q \in {t \in shorter : Len(t) = n - 1}, x \in S}

NormIdle == [label |-> << >>, codes |-> << >>]

\* the caller has kept nothing of an earlier call
NoCall ==
  [kept |-> FALSE, input |-> << >>,
   output |-> [rows |-> << >>, defect_columns |-> << >>,
               summary |-> [total_products |-> 0, total_inspected |-> 0,
                            total_rejected |-> 0]]]

(***************************** the site *************************************)
\* requests of the site are served by concurrent workers
Workers == {"w1", "w2"}

\* a worker between two requests
Idle == [op |-> "idle"]

\* no document in the three tables, no request running
SiteIdle ==
  /\ configs = << >>
  /\ cars = << >>
  /\ reports = << >>
  /\ procs = [w \in Workers |-> Idle]

(**************************** the report call *******************************)
Init ==
  /\ db \in SeqsUpTo(DocInputs, MaxRecords)
  /\ pc = "fetch"
  /\ data = << >>
  /\ idx = 0
  /\ product_groups = << >>
  /\ all_normalized_defects = {}
  /\ result = [rows |-> << >>, defect_columns |-> << >>,
               summary |-> [total_products |-> 0, total_inspected |-> 0,
                            total_rejected |-> 0]]
  /\ norm = NormIdle
  /\ earlier = NoCall
  /\ filters = NoFilters
  /\ SiteIdle

\* the default dates are written into filters, then
\* data = _get_unified_rejection_data(filters)
Fetch ==
  /\ pc = "fetch"
  /\ filters' = WithDefaultDates(filters)
  /\ data' = _get_unified_rejection_data(SelectDocs(db, filters'))
  /\ pc' = "loop"
  /\ UNCHANGED <<db, idx, product_groups, all_normalized_defects, result, norm, earlier>>
  /\ UNCHANGED siteVars

\* variant of ProcessRow that passes over a record without product code or
\* without main lot (mutation of C15)
ProcessRowSkippingUnknown ==
  /\ pc = "loop"
  /\ idx < Len(data)
  /\ idx' = idx + 1
  /\ IF data[idx + 1].item_code = << >> \/ data[idx + 1].main_lot = << >>
     THEN UNCHANGED <<product_groups, all_normalized_defects>>
     ELSE /\ product_groups' = ProcessRowInto(product_groups, data[idx + 1])
          /\ all_normalized_defects' = all_normalized_defects \cup RowCodes(data[idx + 1])
  /\ UNCHANGED <<pc, db, data, result, norm, earlier, filters>>
  /\ UNCHANGED siteVars

\* one iteration of "for row in data"
ProcessRow ==
  /\ pc = "loop"
  /\ idx < Len(data)
  /\ idx' = idx + 1
  /\ product_groups' = ProcessRowInto(product_groups, data[idx + 1])
  /\ all_normalized_defects' = all_normalized_defects \cup RowCodes(data[idx + 1])
  /\ UNCHANGED <<pc, db, data, result, norm, earlier, filters>>
  /\ UNCHANGED siteVars

\* the flattening and the return
Flatten ==
  /\ pc = "loop"
  /\ idx = Len(data)
  /\ result' = [rows           |-> FlattenRows(product_groups),
                defect_columns |-> SortedDefects(all_normalized_defects),
                summary        |-> Summary(product_groups)]
  /\ pc' = "done"
  /\ UNCHANGED <<db, data, idx, product_groups, all_normalized_defects, norm, earlier, filters>>
  /\ UNCHANGED siteVars

Next == Fetch \/ ProcessRow \/ Flatten

Spec == Init /\ [][Next]_vars

(******************** the lot-number columns on their own ********************)
LotAlphabet == {"L", "2", "-", "/"}

RECURSIVE StringsOfLen(_, _)
StringsOfLen(A, n) ==
  IF n = 0 THEN {<< >>}
  ELSE {Append(t, c) : t \in StringsOfLen(A, n - 1), c \in A}

IsDelimiter(c) == c \in {"-", "/"}

\* segments of letters and digits joined by single delimiters
WellFormedLot(s) ==
  /\ Len(s) >= 1
  /\ ~IsDelimiter(s[1])
  /\ ~IsDelimiter(s[Len(s)])
  /\ \A i \in 1..(Len(s) - 1) : ~(IsDelimiter(s[i]) /\ IsDelimiter(s[i + 1]))

LotInputs ==
  {<< >>} \cup
  UNION {{s \in StringsOfLen(LotAlphabet, n) : WellFormedLot(s)} : n \in 1..MaxLotLen}

SourceTypes == {"SPP Inspection Entry", "Inspection Entry"}

\* one document of either source, the lot number ranging over LotInputs
InitLot ==
  /\ db \in {<<Doc(src, <<"A">>, lot, 3, 0, << >>)>> : src \in SourceTypes, lot \in LotInputs}
  /\ pc = "fetch"
  /\ data = << >>
  /\ idx = 0
  /\ product_groups = << >>
  /\ all_normalized_defects = {}
  /\ result = [rows |-> << >>, defect_columns |-> << >>,
               summary |-> [total_products |-> 0, total_inspected |-> 0,
                            total_rejected |-> 0]]
  /\ norm = NormIdle
  /\ earlier = NoCall
  /\ filters = NoFilters
  /\ SiteIdle

SpecLot == InitLot /\ [][Next]_vars

(******************** the report query with filters **************************)
\* documents of both tables that differ in product, inspector, inspection type
\* and posting date (one before the default range, one late in it)
FilterDocs ==
  {[Doc(src, product, <<"C","-","1">>, 3, 0, << >>)
      EXCEPT !.inspector_code = ins, !.inspection_type = type] :
     src \in {"SPP Inspection Entry", "Inspection Entry"},
     product \in {<<"A">>, <<"B">>},
     ins \in {"INS-1", "INS-2"},
     type \in {"Lot Inspection", "Incoming Inspection"}}
  \cup {[Doc("Inspection Entry", <<"A">>, <<"C","-","1">>, 3, 0, << >>) EXCEPT !.posting_date = d] :
          d \in {Today - 60, Today - 2}}

FilterInputs ==
  {[from_date |-> from, to_date |-> 0, item_code |-> item, inspector |-> ins,
    inspection_type |-> type] :
     from \in {0, Today - 5},
     item \in {<<>>, <<"A">>},
     ins \in {"", "INS-1"},
     type \in {"", "Lot Inspection", "Final Visual Inspection"}}

InitFilter ==
  /\ db \in SeqsUpTo(FilterDocs, MaxRecords)
  /\ filters \in FilterInputs
  /\ SiteIdle
  /\ pc = "fetch"
  /\ data = << >>
  /\ idx = 0
  /\ product_groups = << >>
  /\ all_normalized_defects = {}
  /\ result = [rows |-> << >>, defect_columns |-> << >>,
               summary |-> [total_products |-> 0, total_inspected |-> 0,
                            total_rejected |-> 0]]
  /\ norm = NormIdle
  /\ earlier = [kept |-> FALSE, input |-> << >>, output |-> result]

SpecFilter == InitFilter /\ [][Fetch]_vars

(************** _get_product_grouped_pivot_data on its own ********************)
\* a defect_details text with the well-formed (code, quantity) pairs it holds:
\* no entry, a label of two keyword groups, a label twice, two labels of one
\* code, an entry without ":", an entry without quantity, an entry whose
\* quantity is not a number
Pair(code, qty) == [code |-> code, qty |-> qty]

DetailCases ==
  {[details |-> <<>>,                pairs |-> << >>],
   [details |-> <<"B","u","b","b","l","e"," ","D","e","f","e","c","t",":","2">>, pairs |-> <<Pair("DT", 2)>>],
   [details |-> <<"B","e","n","d",":","1",";"," ","B","e","n","d",":","2">>,  pairs |-> <<Pair("BD", 1), Pair("BD", 2)>>],
   [details |-> <<"B","e","n","d",":","1",";"," ","B","D",":","2">>,    pairs |-> <<Pair("BD", 1), Pair("BD", 2)>>],
   [details |-> <<"B","e","n","d",";"," ","T","e","a","r",":","2">>,    pairs |-> <<Pair("T", 2)>>],
   [details |-> <<"B","e","n","d",":",";"," ","T","e","a","r",":","2">>,   pairs |-> <<Pair("T", 2)>>],
   [details |-> <<"B","e","n","d",":","x",";"," ","T","e","a","r",":","2">>,  pairs |-> <<Pair("T", 2)>>]}

PairTotal(pairs) == SeqSum([i \in 1..Len(pairs) |-> pairs[i].qty])

\* (item_code, main_lot, sublot_number) of the records: two sub-lots of one main
\* lot, a record without product code and a record without lot number
AggPlaces ==
  {<<<<"A">>, <<"C">>, <<"1">>>>, <<<<"A">>, <<"C">>, <<"2">>>>, <<<<>>, <<"C">>, <<"1">>>>, <<<<"A">>, <<>>, <<"1">>>>}

\* a record as _get_unified_rejection_data hands it over; rejected_qty is the
\* sum of the quantities of its well-formed defect pairs
Record(item_code, main_lot, sublot_number, case) ==
  [source_type     |-> "Inspection Entry",
   inspection_type |-> "Lot Inspection",
   document_name   |-> 1,
   lot_no          |-> IF main_lot = << >> THEN << >>
                       ELSE main_lot \o <<"-">> \o sublot_number,
   item_code       |-> item_code,
   posting_date    |-> 20250101,
   inspector_code  |-> "INS-1",
   inspected_qty   |-> 4,
   rejected_qty    |-> PairTotal(case.pairs),
   sublot_number   |-> sublot_number,
   main_lot        |-> main_lot,
   defect_details  |-> case.details,
   rejection_cost  |-> 0]

AggRecords == {Record(pl[1], pl[2], pl[3], c) : pl \in AggPlaces, c \in DetailCases}

\* the record lists, each record named after its position
RecordLists(records, n) ==
  {[i \in 1..Len(q) |-> [q[i] EXCEPT !.document_name = i]] : q \in SeqsUpTo(records, n)}

InitAgg ==
  /\ data \in RecordLists(AggRecords, MaxRecords)
  /\ pc = "loop"
  /\ db = << >>
  /\ idx = 0
  /\ product_groups = << >>
  /\ all_normalized_defects = {}
  /\ result = [rows |-> << >>, defect_columns |-> << >>,
               summary |-> [total_products |-> 0, total_inspected |-> 0,
                            total_rejected |-> 0]]
  /\ norm = NormIdle
  /\ earlier = NoCall
  /\ filters = NoFilters
  /\ SiteIdle

NextAgg == ProcessRow \/ Flatten

SpecAgg == InitAgg /\ [][NextAgg]_vars

(********* _get_product_grouped_pivot_data on records in any order ***********)
\* records of two sub-lots of one main lot that differ in their quantities, cost
\* and defects
OrderRecords ==
  {[Record(<<"A">>, <<"C">>, n, c) EXCEPT !.inspected_qty = q, !.rejection_cost = q + 1] :
     n \in {<<"1">>, <<"2">>},
     c \in {d \in DetailCases : d.details \in {<<"B","e","n","d",":","x",";"," ","T","e","a","r",":","2">>, <<"B","e","n","d",":","1",";"," ","B","e","n","d",":","2">>}},
     q \in {0, 4}}

InitOrder ==
  /\ data \in RecordLists(OrderRecords, MaxRecords)
  /\ pc = "loop"
  /\ db = << >>
  /\ idx = 0
  /\ product_groups = << >>
  /\ all_normalized_defects = {}
  /\ result = NoCall.output
  /\ norm = NormIdle
  /\ earlier = NoCall
  /\ filters = NoFilters
  /\ SiteIdle

SpecOrder == InitOrder /\ [][NextAgg]_vars

(************ _get_product_grouped_pivot_data called again and again **********)
\* variant of FreshGroups that goes on with the dictionaries of the last call
\* (mutation of C17)
GroupsOfLastCall == product_groups

\* product_groups = {} and all_normalized_defects = set() at the entry
FreshGroups == << >>
FreshDefects == {}

\* the records of the repeated calls: three places, one defect text
CallRecords ==
  {r \in AggRecords : r.main_lot = <<"C">> /\ r.defect_details = <<"B","u","b","b","l","e"," ","D","e","f","e","c","t",":","2">>}

InitCalls ==
  /\ data \in RecordLists(CallRecords, MaxRecords)
  /\ pc = "loop"
  /\ db = << >>
  /\ idx = 0
  /\ product_groups = << >>
  /\ all_normalized_defects = {}
  /\ result = NoCall.output
  /\ norm = NormIdle
  /\ earlier = NoCall
  /\ filters = NoFilters
  /\ SiteIdle

\* the caller, which may keep what it gave and got, calls the function again
CallAgain ==
  /\ pc = "done"
  /\ \E keep \in BOOLEAN :
       earlier' = IF keep /\ ~earlier.kept
                  THEN [kept |-> TRUE, input |-> data, output |-> result]
                  ELSE earlier
  /\ data' \in RecordLists(CallRecords, MaxRecords)
  /\ pc' = "loop"
  /\ idx' = 0
  /\ product_groups' = FreshGroups
  /\ all_normalized_defects' = FreshDefects
  /\ result' = NoCall.output
  /\ UNCHANGED <<db, norm, filters>>
  /\ UNCHANGED siteVars

NextCalls == ProcessRow \/ Flatten \/ CallAgain

SpecCalls == InitCalls /\ [][NextCalls]_vars

(******************** normalize_defect_type on its own ***********************)
LabelInputs ==
  {<<>>, <<" ">>, <<"x">>, <<"C","r","a","c","k">>, <<"P","i","n"," ","H","o","l","e">>, <<"S","h","o","r","t"," ","M","o","u","l","d","i","n","g">>,
   <<"D","e","f","e","c","t">>, <<"D","E","F","E","C","T">>, <<"d","e","f","e","c","t">>, <<"B","e","n","d"," ","D","e","f","e","c","t">>, <<"B","u","b","b","l","e"," ","D","e","f","e","c","t">>,
   <<"B","U","B","B","L","E"," ","D","E","F","E","C","T">>, <<"S","u","r","f","a","c","e"," ","D","e","f","e","c","t">>, <<"s","u","r","f","a","c","e"," ","d","e","f","e","c","t">>, <<"S","t","a","i","n">>, <<"S","T","A","I","N">>,
   <<"S","t","a","i","n"," ","D","e","f","e","c","t">>, <<"B","e","n","d">>, <<"B","E","N","D">>, <<"b","e","n","d">>, <<"B","a","c","k","r","i","n","d">>, <<"B","l","i","s","t","e","r">>,
   <<"B","L","I","S","T","E","R">>, <<"b","l","i","s","t","e","r">>, <<"B","l","a","c","k"," ","M","a","r","k">>, <<"B","u","n","e">>, <<"B","o","n","d","i","n","g">>, <<"B","o","n","d">>,
   <<"B","u","b","b","l","e">>, <<"B","U","B","B","L","E">>, <<"b","u","b","b","l","e">>, <<"C","u","t"," ","M","a","r","k">>, <<"C","o","l","o","u","r"," ","V","a","r","i","a","t","i","o","n">>,
   <<"D","e","f","l","a","s","h">>, <<"D","i","p","r","e","s","s","i","o","n">>, <<"F","l","o","w">>, <<"F","l","o","w"," ","M","a","r","k">>, <<"M","a","r","k"," ","F">>,
   <<"F","o","r","e","i","g","n"," ","P","a","r","t","i","c","l","e">>, <<"C","e","l","l">>, <<"S","h","e","l","l">>, <<"D","a","m","a","g","e">>, <<"S","h","e","l","l"," ","D","a","m","a","g","e">>,
   <<"B","u","r","s","t">>, <<"B","U","R","S","T">>, <<"b","u","r","s","t">>, <<"T","e","a","r">>, <<"T","E","A","R">>, <<"t","e","a","r">>, <<" ","T"," ">>, <<" ","t">>,
   <<"T","o","o","l"," ","M","a","r","k">>, <<"U","n","d","e","r"," ","F","i","l","l">>,
   <<"D","T">>, <<"B","D">>, <<"B","K">>, <<"B","L">>, <<"B","M">>, <<"B","N">>, <<"B","O">>, <<"B","U">>, <<"C","M">>, <<"C","V">>,
   <<"D","F">>, <<"D","P">>, <<"F">>, <<"F","P">>, <<"S","D">>, <<"S","H">>, <<"T">>, <<"T","M">>, <<"U","F">>, <<"O","T","H">>}

InitNorm ==
  /\ norm \in {[label |-> l, codes |-> << >>] : l \in LabelInputs}
  /\ pc = "idle"
  /\ db = << >>
  /\ data = << >>
  /\ idx = 0
  /\ product_groups = << >>
  /\ all_normalized_defects = {}
  /\ result = [rows |-> << >>, defect_columns |-> << >>,
               summary |-> [total_products |-> 0, total_inspected |-> 0,
                            total_rejected |-> 0]]
  /\ earlier = NoCall
  /\ filters = NoFilters
  /\ SiteIdle

\* variant of Normalize that hands an empty label back as it came (mutation of C11)
NormalizeEmptyAsIs ==
  /\ pc = "idle"
  /\ Len(norm.codes) = 0
  /\ norm' = [norm EXCEPT !.codes =
                <<IF norm.label = << >> THEN "" ELSE normalize_defect_type(norm.label)>>]
  /\ UNCHANGED <<pc, db, data, idx, product_groups, all_normalized_defects, result, earlier, filters>>
  /\ UNCHANGED siteVars

\* normalize_defect_type(label)
Normalize ==
  /\ pc = "idle"
  /\ Len(norm.codes) = 0
  /\ norm' = [norm EXCEPT !.codes = <<normalize_defect_type(norm.label)>>]
  /\ UNCHANGED <<pc, db, data, idx, product_groups, all_normalized_defects, result, earlier, filters>>
  /\ UNCHANGED siteVars

\* normalize_defect_type applied to the code it returned
NormalizeAgain ==
  /\ pc = "idle"
  /\ Len(norm.codes) = 1
  /\ norm' = [norm EXCEPT !.codes = Append(@, normalize_defect_type(CodeText[norm.codes[1]]))]
  /\ UNCHANGED <<pc, db, data, idx, product_groups, all_normalized_defects, result, earlier, filters>>
  /\ UNCHANGED siteVars

NextNorm == Normalize \/ NormalizeAgain

SpecNorm == InitNorm /\ [][NextNorm]_vars

(**************** get_threshold_for_inspection_type ***************************)
\* the report variables of a site on which no report call runs
ReportIdle ==
  /\ db = << >>
  /\ pc = "done"
  /\ data = << >>
  /\ idx = 0
  /\ product_groups = << >>
  /\ all_normalized_defects = {}
  /\ result = [rows |-> << >>, defect_columns |-> << >>,
               summary |-> [total_products |-> 0, total_inspected |-> 0,
                            total_rejected |-> 0]]
  /\ norm = NormIdle
  /\ earlier = NoCall
  /\ filters = NoFilters

\* configurations stored on the site
MaxConfigs == 2

\* the three fields the queries select; percentages in tenths
ThresholdFields(c) ==
  [threshold_percentage |-> c.threshold_percentage,
   warning_threshold |-> c.warning_threshold,
   critical_threshold |-> c.critical_threshold]

\* return value when no configuration is found: 5.0, 3.0, 10.0
DefaultThresholds ==
  [threshold_percentage |-> 50, warning_threshold |-> 30, critical_threshold |-> 100]

\* the priority is item group first, then product
get_threshold_group_first(table, inspection_type, product_ref_no, item_group) ==
  LET Base(c) == c.inspection_type = inspection_type /\ c.is_active = 1
      ByProduct(c) == Base(c) /\ c.product_ref_no = product_ref_no
      ByGroup(c) == Base(c) /\ c.item_group = item_group
      Global(c) == Base(c) /\ c.product_ref_no = "" /\ c.item_group = ""
      product_config == IF product_ref_no # "" THEN SelectSeq(table, ByProduct) ELSE << >>
      group_config == IF item_group # "" THEN SelectSeq(table, ByGroup) ELSE << >>
      global_config == SelectSeq(table, Global)
  IN  IF group_config # << >> THEN ThresholdFields(group_config[1])
      ELSE IF product_config # << >> THEN ThresholdFields(product_config[1])
      ELSE IF global_config # << >> THEN ThresholdFields(global_config[1])
      ELSE DefaultThresholds

\* frappe.get_all lists the rows that pass the filters in table order; ""
\* stands for an argument that is None or empty
get_threshold_for_inspection_type(table, inspection_type, product_ref_no, item_group) ==
  LET Base(c) == c.inspection_type = inspection_type /\ c.is_active = 1
      ByProduct(c) == Base(c) /\ c.product_ref_no = product_ref_no
      ByGroup(c) == Base(c) /\ c.item_group = item_group
      Global(c) == Base(c) /\ c.product_ref_no = "" /\ c.item_group = ""
      product_config == IF product_ref_no # "" THEN SelectSeq(table, ByProduct) ELSE << >>
      group_config == IF item_group # "" THEN SelectSeq(table, ByGroup) ELSE << >>
      global_config == SelectSeq(table, Global)
  IN  IF product_config # << >> THEN ThresholdFields(product_config[1])
      ELSE IF group_config # << >> THEN ThresholdFields(group_config[1])
      ELSE IF global_config # << >> THEN ThresholdFields(global_config[1])
      ELSE DefaultThresholds

\* RejectionThresholdConfiguration.validate_thresholds does not throw
validate_thresholds(c) ==
  /\ c.warning_threshold # 0 /\ c.threshold_percentage # 0
       => c.warning_threshold < c.threshold_percentage
  /\ c.critical_threshold # 0 /\ c.threshold_percentage # 0
       => c.critical_threshold > c.threshold_percentage
  /\ c.warning_threshold # 0 /\ c.critical_threshold # 0
       => c.warning_threshold < c.critical_threshold

\* RejectionThresholdConfiguration.validate_uniqueness does not throw
validate_uniqueness(table, c) ==
  LET Base(e) == e.inspection_type = c.inspection_type /\ e.is_active = 1
                   /\ e.name # c.name
      Same(e) == IF c.product_ref_no # "" THEN Base(e) /\ e.product_ref_no = c.product_ref_no
                 ELSE IF c.item_group # "" THEN Base(e) /\ e.item_group = c.item_group
                 ELSE Base(e) /\ e.product_ref_no = "" /\ e.item_group = ""
  IN  SelectSeq(table, Same) = << >>

\* the configurations a user enters; each has thresholds of its own
ConfigInputs ==
  { [inspection_type |-> t, product_ref_no |-> p, item_group |-> g, is_active |-> a,
     threshold_percentage |-> 40 + (IF p = "" THEN 0 ELSE 1) + (IF g = "" THEN 0 ELSE 2)
                                 + 4 * a + (IF t = "Lot Inspection" THEN 0 ELSE 8),
     warning_threshold |-> 20, critical_threshold |-> 90] :
      t \in {"Lot Inspection", "Incoming Inspection"}, p \in {"", "A"},
      g \in {"", "G"}, a \in {0, 1} }

\* a configuration is inserted: validate, then the row is stored; the queries
\* list the newest row first
InsertConfig ==
  /\ Len(configs) < MaxConfigs
  /\ \E c \in ConfigInputs :
       LET doc == c @@ [name |-> Len(configs) + 1]
       IN  /\ validate_thresholds(doc)
           /\ validate_uniqueness(configs, doc)
           /\ configs' = <<doc>> \o configs
  /\ UNCHANGED <<cars, reports, procs>>
  /\ UNCHANGED <<pc, db, data, idx, product_groups, all_normalized_defects, result,
                 norm, earlier, filters>>

\* a worker serves one call of get_threshold_for_inspection_type
GetThreshold ==
  /\ \E w \in Workers, p \in {"", "A", "B"}, g \in {"", "G"} :
       /\ procs[w] = Idle
       /\ procs' = [procs EXCEPT ![w] =
            [op |-> "get_threshold_for_inspection_type", pc |-> "done",
             inspection_type |-> "Lot Inspection", product_ref_no |-> p, item_group |-> g,
             ret |-> get_threshold_for_inspection_type(configs, "Lot Inspection", p, g)]]
  /\ UNCHANGED <<configs, cars, reports>>
  /\ UNCHANGED <<pc, db, data, idx, product_groups, all_normalized_defects, result,
                 norm, earlier, filters>>

\* the response is sent and the worker is free again
Return ==
  /\ \E w \in Workers :
       /\ procs[w] # Idle
       /\ procs[w].pc = "done"
       /\ procs' = [procs EXCEPT ![w] = Idle]
  /\ UNCHANGED <<configs, cars, reports>>
  /\ UNCHANGED <<pc, db, data, idx, product_groups, all_normalized_defects, result,
                 norm, earlier, filters>>

InitThreshold ==
  /\ ReportIdle
  /\ SiteIdle

NextThreshold == InsertConfig \/ GetThreshold \/ Return

SpecThreshold == InitThreshold /\ [][NextThreshold]_vars

(******************* CorrectiveActionReport.validate_dates ********************)
\* a date field in memory: empty, a 'YYYY-MM-DD' string, or a datetime.date
NoDate == [kind |-> "none", day |-> 0]

DateStr(d) == [kind |-> "str", day |-> d]

DateObj(d) == [kind |-> "date", day |-> d]

\* frappe.utils.today() is the string of the current date
today == DateStr(Today)

\* truth value of a date field
Truthy(v) == v.kind # "none"

\* getdate of a non-empty value
getdate(v) == DateObj(v.day)

\* if isinstance(v, str): v = getdate(v)
StrToDate(v) == IF v.kind = "str" THEN getdate(v) ELSE v

\* a > b or a < b raises TypeError: a datetime.date against a string
TypeErrorOn(a, b) == a.kind # b.kind

\* the dates after the call, whether it threw, whether it logged an error
validate_dates(doc) ==
  LET car_date == IF Truthy(doc.car_date) THEN StrToDate(doc.car_date) ELSE doc.car_date
      target_date == IF Truthy(doc.target_date) THEN StrToDate(doc.target_date)
                     ELSE doc.target_date
      converted == [doc EXCEPT !.car_date = car_date, !.target_date = target_date]
      retried == [doc EXCEPT
                    !.car_date = IF Truthy(car_date) THEN getdate(car_date) ELSE today,
                    !.target_date = IF Truthy(target_date) THEN getdate(target_date)
                                    ELSE target_date]
      caught == [raised |-> FALSE, logged |-> TRUE, doc |-> retried]
      thrown == [raised |-> TRUE, logged |-> FALSE, doc |-> converted]
      passed == [raised |-> FALSE, logged |-> FALSE, doc |-> converted]
  IN  IF Truthy(car_date) /\ TypeErrorOn(car_date, today) THEN caught
      ELSE IF Truthy(car_date) /\ car_date.day > today.day THEN thrown
      ELSE IF Truthy(target_date) /\ Truthy(car_date) /\ TypeErrorOn(target_date, car_date)
        THEN caught
      ELSE IF Truthy(target_date) /\ Truthy(car_date) /\ target_date.day < car_date.day
        THEN thrown
      ELSE passed

\* the dates a document arrives with
DateInputs ==
  {NoDate} \cup { DateStr(d) : d \in Today - 1 .. Today + 2 }
           \cup { DateObj(d) : d \in Today - 1 .. Today + 2 }

InitDates ==
  /\ ReportIdle
  /\ configs = << >>
  /\ cars = << >>
  /\ reports = << >>
  /\ \E c \in DateInputs, t \in DateInputs :
       procs = [w \in Workers |->
                  IF w = "w1"
                  THEN [op |-> "validate_dates", pc |-> "call",
                        doc |-> [car_date |-> c, target_date |-> t]]
                  ELSE Idle]

\* validate() runs validate_dates on the document being saved
ValidateDates ==
  /\ \E w \in Workers :
       /\ procs[w] # Idle
       /\ procs[w].op = "validate_dates"
       /\ procs[w].pc = "call"
       /\ procs' = [procs EXCEPT ![w] =
            [op |-> "validate_dates", pc |-> "done", doc |-> procs[w].doc,
             ret |-> validate_dates(procs[w].doc)]]
  /\ UNCHANGED <<configs, cars, reports>>
  /\ UNCHANGED <<pc, db, data, idx, product_groups, all_normalized_defects, result,
                 norm, earlier, filters>>

SpecDates == InitDates /\ [][ValidateDates]_vars

(*********************** Corrective Action Reports ****************************)
\* Corrective Action Reports stored on the site
MaxCars == 2

\* the names found in table Inspection Entry or in table SPP Inspection Entry
InspectionEntries == {"IE-1"}

\* frappe.db.exists("Corrective Action Report", car_name)
CarExists(table, car_name) == car_name \in 1..Len(table)

\* a date as the table stores it: the day, 0 for NULL
Stored(v) == IF Truthy(v) THEN v.day ELSE 0

\* a stored date as get_doc returns it
Loaded(day) == IF day = 0 THEN NoDate ELSE DateObj(day)

\* the two date fields of a stored document, in memory
DatesOf(car) == [car_date |-> Loaded(car.car_date), target_date |-> Loaded(car.target_date)]

\* the fields update_car copies from car_data
updatable_fields ==
  {"problem_description", "cause_for_non_detection", "cause_for_occurrence",
   "corrective_action", "preventive_measures", "assigned_to", "target_date", "remarks"}

\* f"why_{i}"
why_key(i) ==
  CASE i = 1 -> "why_1" [] i = 2 -> "why_2" [] i = 3 -> "why_3"
    [] i = 4 -> "why_4" [] OTHER -> "why_5"

\* the stored form of a document after validate() ran on it and did not throw
Saved(car, dates) ==
  [car EXCEPT !.car_date = Stored(dates.car_date), !.target_date = Stored(dates.target_date)]

\* the table and the response after create_car_from_inspection; an absent key
\* of car_data reads as "" (None), an absent target_date as NoDate
create_car_from_inspection(table, inspection_entry_name, car_data) ==
  LET target_date_value ==
        IF Truthy(car_data.target_date) THEN StrToDate(car_data.target_date)
        ELSE car_data.target_date
      car == [name |-> Len(table) + 1,
              docstatus |-> 0,
              car_date |-> 0,
              inspection_entry |-> inspection_entry_name,
              corrective_action |-> car_data.corrective_action,
              target_date |-> 0,
              status |-> "Open",
              five_why_analysis |-> << >>]
      checked == validate_dates([car_date |-> today, target_date |-> target_date_value])
  IN  IF inspection_entry_name \notin InspectionEntries
        THEN [error |-> TRUE, name |-> 0, table |-> table]
      ELSE IF checked.raised
        THEN [error |-> TRUE, name |-> 0, table |-> table]
      ELSE [error |-> FALSE, name |-> car.name,
            table |-> Append(table, Saved(car, checked.doc))]

\* update_car without the test of docstatus 1
update_car_submitted_too(table, car_name, car_data) ==
  LET car == table[car_name]
      value(field) ==
        IF field = "target_date" /\ Truthy(car_data[field]) THEN StrToDate(car_data[field])
        ELSE car_data[field]
      set == [field \in DOMAIN car |->
                IF field \in updatable_fields /\ field \in DOMAIN car_data
                THEN IF field = "target_date" THEN Stored(value(field)) ELSE value(field)
                ELSE car[field]]
      rows == IF "why_analysis" \in DOMAIN car_data
              THEN [i \in 1..Len(car_data.why_analysis) |->
                      [why_question |-> car_data.why_analysis[i].why_question,
                       answer |-> car_data.why_analysis[i].answer]]
              ELSE car.five_why_analysis
      doc == [set EXCEPT !.five_why_analysis = rows]
      checked == validate_dates(
                   [car_date |-> Loaded(doc.car_date),
                    target_date |-> IF "target_date" \in DOMAIN car_data
                                    THEN value("target_date") ELSE Loaded(doc.target_date)])
  IN  IF ~CarExists(table, car_name) THEN [error |-> TRUE, table |-> table]
      ELSE IF car.docstatus = 2 THEN [error |-> TRUE, table |-> table]
      ELSE IF checked.raised THEN [error |-> TRUE, table |-> table]
      ELSE [error |-> FALSE,
            table |-> [table EXCEPT ![car_name] = Saved(doc, checked.doc)]]

\* the table and the response after update_car
update_car(table, car_name, car_data) ==
  LET car == table[car_name]
      value(field) ==
        IF field = "target_date" /\ Truthy(car_data[field]) THEN StrToDate(car_data[field])
        ELSE car_data[field]
      set == [field \in DOMAIN car |->
                IF field \in updatable_fields /\ field \in DOMAIN car_data
                THEN IF field = "target_date" THEN Stored(value(field)) ELSE value(field)
                ELSE car[field]]
      rows == IF "why_analysis" \in DOMAIN car_data
              THEN [i \in 1..Len(car_data.why_analysis) |->
                      [why_question |-> car_data.why_analysis[i].why_question,
                       answer |-> car_data.why_analysis[i].answer]]
              ELSE car.five_why_analysis
      doc == [set EXCEPT !.five_why_analysis = rows]
      checked == validate_dates(
                   [car_date |-> Loaded(doc.car_date),
                    target_date |-> IF "target_date" \in DOMAIN car_data
                                    THEN value("target_date") ELSE Loaded(doc.target_date)])
  IN  IF ~CarExists(table, car_name) THEN [error |-> TRUE, table |-> table]
      ELSE IF car.docstatus = 1 THEN [error |-> TRUE, table |-> table]
      ELSE IF car.docstatus = 2 THEN [error |-> TRUE, table |-> table]
      ELSE IF checked.raised THEN [error |-> TRUE, table |-> table]
      ELSE [error |-> FALSE,
            table |-> [table EXCEPT ![car_name] = Saved(doc, checked.doc)]]

\* the rows save_five_why_analysis appends
why_rows(why_answers) == [i \in 1..Len(why_answers) |-> (why_key(i) :> why_answers[i])]

\* the table and the response after save_five_why_analysis on a draft
save_five_why_analysis(table, car_name, why_answers) ==
  LET car == table[car_name]
      doc == [car EXCEPT !.five_why_analysis = why_rows(why_answers)]
      checked == validate_dates(DatesOf(doc))
  IN  IF ~CarExists(table, car_name) THEN [error |-> TRUE, table |-> table]
      ELSE IF checked.raised THEN [error |-> TRUE, table |-> table]
      ELSE [error |-> FALSE,
            table |-> [table EXCEPT ![car_name] = Saved(doc, checked.doc)]]

\* before_submit never throws
before_submit_unchecked(car) == FALSE

\* before_submit throws
before_submit(car) == car.corrective_action = ""

\* no response is waiting to be delivered
AllIdle == \A w \in Workers : procs[w] = Idle

\* car_data of create_car_from_inspection, absent keys filled in as .get reads them
CreateInputs ==
  { [corrective_action |-> c, target_date |-> t] :
      c \in {"", "fix"}, t \in {NoDate, DateStr(Today + 1)} }

\* car_data of update_car
UpdateInputs ==
  { [corrective_action |-> ""],
    [corrective_action |-> "fix"],
    [target_date |-> DateStr(Today + 1), status |-> "Closed"],
    [why_analysis |-> << [why_question |-> "q", answer |-> "a"] >>] }

\* names a caller passes: the stored documents and one that does not exist
CarNames == 1..(Len(cars) + 1)

\* one request of create_car_from_inspection, insert and commit included
CreateCar ==
  /\ AllIdle
  /\ Len(cars) < MaxCars
  /\ \E w \in Workers, e \in InspectionEntries \cup {"IE-9"}, car_data \in CreateInputs :
       LET r == create_car_from_inspection(cars, e, car_data)
       IN  /\ cars' = r.table
           /\ procs' = [procs EXCEPT ![w] =
                [op |-> "create_car_from_inspection", pc |-> "done",
                 car_name |-> r.name, error |-> r.error]]
  /\ UNCHANGED <<configs, reports>>
  /\ UNCHANGED <<pc, db, data, idx, product_groups, all_normalized_defects, result,
                 norm, earlier, filters>>

\* one request of update_car, save included
UpdateCar ==
  /\ AllIdle
  /\ \E w \in Workers, car_name \in CarNames, car_data \in UpdateInputs :
       LET r == update_car(cars, car_name, car_data)
       IN  /\ cars' = r.table
           /\ procs' = [procs EXCEPT ![w] =
                [op |-> "update_car", pc |-> "done",
                 car_name |-> car_name, error |-> r.error]]
  /\ UNCHANGED <<configs, reports>>
  /\ UNCHANGED <<pc, db, data, idx, product_groups, all_normalized_defects, result,
                 norm, earlier, filters>>

\* one request of save_five_why_analysis; save() of a submitted document
\* either refuses the changed rows or stores them, as the doctype allows, and
\* refuses a cancelled document
SaveFiveWhy ==
  /\ AllIdle
  /\ \E w \in Workers, car_name \in CarNames :
       LET r == save_five_why_analysis(cars, car_name, <<"a">>)
           refused == [error |-> TRUE, table |-> cars]
       IN  \E out \in IF ~CarExists(cars, car_name) THEN {r}
                      ELSE IF cars[car_name].docstatus = 0 THEN {r}
                      ELSE IF cars[car_name].docstatus = 1 THEN {r, refused}
                      ELSE {refused} :
             /\ cars' = out.table
             /\ procs' = [procs EXCEPT ![w] =
                  [op |-> "save_five_why_analysis", pc |-> "done",
                   car_name |-> car_name, error |-> out.error]]
  /\ UNCHANGED <<configs, reports>>
  /\ UNCHANGED <<pc, db, data, idx, product_groups, all_normalized_defects, result,
                 norm, earlier, filters>>

\* a draft is submitted: validate, before_submit, then docstatus 1
SubmitCar ==
  /\ AllIdle
  /\ \E w \in Workers, car_name \in 1..Len(cars) :
       LET car == cars[car_name]
           checked == validate_dates(DatesOf(car))
           refused == checked.raised \/ before_submit(car)
       IN  /\ car.docstatus = 0
           /\ cars' = IF refused THEN cars
                      ELSE [cars EXCEPT ![car_name] =
                              [Saved(car, checked.doc) EXCEPT !.docstatus = 1]]
           /\ procs' = [procs EXCEPT ![w] =
                [op |-> "submit", pc |-> "done", car_name |-> car_name,
                 error |-> refused]]
  /\ UNCHANGED <<configs, reports>>
  /\ UNCHANGED <<pc, db, data, idx, product_groups, all_normalized_defects, result,
                 norm, earlier, filters>>

\* a submitted document is cancelled: docstatus 2
CancelCar ==
  /\ AllIdle
  /\ \E w \in Workers, car_name \in 1..Len(cars) :
       /\ cars[car_name].docstatus = 1
       /\ cars' = [cars EXCEPT ![car_name].docstatus = 2]
       /\ procs' = [procs EXCEPT ![w] =
            [op |-> "cancel", pc |-> "done", car_name |-> car_name, error |-> FALSE]]
  /\ UNCHANGED <<configs, reports>>
  /\ UNCHANGED <<pc, db, data, idx, product_groups, all_normalized_defects, result,
                 norm, earlier, filters>>

InitCar ==
  /\ ReportIdle
  /\ SiteIdle

NextCar == CreateCar \/ UpdateCar \/ SaveFiveWhy \/ SubmitCar \/ CancelCar \/ Return

SpecCar == InitCar /\ [][NextCar]_vars

(******************* generate_comprehensive_daily_report **********************)
\* Daily Rejection Reports stored on the site
MaxReports == 2

\* the stored reports of a date, by position in the table
ReportsOf(table, date) == { i \in 1..Len(table) : table[i].report_date = date }

\* DailyRejectionReport.validate_report_date throws
validate_report_date(report) == report.report_date > Today

\* the calls that passed the existence check and have not yet ended
Inserting == { w \in Workers : procs[w] # Idle /\ procs[w].pc = "insert" }

\* the call starts: date defaults to today, then the existence check; the name
\* of a stored report of the date is returned, or the call goes on
GenerateCheck ==
  /\ Len(reports) + Cardinality(Inserting) < MaxReports
  /\ \E w \in Workers, d \in {0, Today - 1, Today, Today + 1} :
       LET date == IF d = 0 THEN Today ELSE d
       IN  /\ procs[w] = Idle
           /\ IF ReportsOf(reports, date) # {}
              THEN \E existing \in ReportsOf(reports, date) :
                     procs' = [procs EXCEPT ![w] =
                       [op |-> "generate_comprehensive_daily_report", pc |-> "done",
                        date |-> date,
                        ret |-> [status |-> "exists", name |-> reports[existing].name]]]
              ELSE procs' = [procs EXCEPT ![w] =
                     [op |-> "generate_comprehensive_daily_report", pc |-> "insert",
                      date |-> date]]
  /\ UNCHANGED <<configs, cars, reports>>
  /\ UNCHANGED <<pc, db, data, idx, product_groups, all_normalized_defects, result,
                 norm, earlier, filters>>

\* the report is built with status Draft, inserted under a new name and
\* committed; a throw of validate is caught and answered with status error
GenerateInsert ==
  /\ \E w \in Inserting :
       LET report == [name |-> Len(reports) + 1, report_date |-> procs[w].date,
                      status |-> "Draft"]
       IN  IF validate_report_date(report)
           THEN /\ procs' = [procs EXCEPT ![w] =
                     [op |-> "generate_comprehensive_daily_report", pc |-> "done",
                      date |-> procs[w].date,
                      ret |-> [status |-> "error", name |-> 0]]]
                /\ UNCHANGED reports
           ELSE /\ reports' = Append(reports, report)
                /\ procs' = [procs EXCEPT ![w] =
                     [op |-> "generate_comprehensive_daily_report", pc |-> "done",
                      date |-> procs[w].date,
                      ret |-> [status |-> "success", name |-> report.name]]]
  /\ UNCHANGED <<configs, cars>>
  /\ UNCHANGED <<pc, db, data, idx, product_groups, all_normalized_defects, result,
                 norm, earlier, filters>>

\* a query of the inspection data or the price lookup raises: the exception is
\* caught and answered with status error, nothing is inserted
GenerateRaise ==
  /\ \E w \in Inserting :
       procs' = [procs EXCEPT ![w] =
         [op |-> "generate_comprehensive_daily_report", pc |-> "done",
          date |-> procs[w].date, ret |-> [status |-> "error", name |-> 0]]]
  /\ UNCHANGED <<configs, cars, reports>>
  /\ UNCHANGED <<pc, db, data, idx, product_groups, all_normalized_defects, result,
                 norm, earlier, filters>>

InitDaily ==
  /\ ReportIdle
  /\ SiteIdle

NextDaily == GenerateCheck \/ GenerateInsert \/ GenerateRaise \/ Return

SpecDaily == InitDaily /\ [][NextDaily]_vars

(****************************** claims ***************************************)
Rows == result.rows
RowIdx == 1..Len(Rows)
RowsOfType(t) == {i \in RowIdx : Rows[i].type = t}

\* row k names row i as its parent
IsChild(k, i) == "parentId" \in DOMAIN Rows[k] /\ Rows[k].parentId = Rows[i].id

\* the rows of type t whose parentId is the id of row i
ChildrenOf(i, t) == {k \in RowsOfType(t) : IsChild(k, i)}

\* the defect columns a row carries, and its count for a code (0 without the column)
DefectCodesOf(row) == DOMAIN row \cap Catalog
CodeCount(row, c) == IF c \in DOMAIN row THEN row[c] ELSE 0

\* sum of field f over the rows in K
SumField(K, f) == SeqSum([k \in RowIdx |-> IF k \in K THEN Rows[k][f] ELSE 0])
SumCode(K, c) == SeqSum([k \in RowIdx |-> IF k \in K THEN CodeCount(Rows[k], c) ELSE 0])

Metrics == {"inspected", "rejected", "rejection_cost"}

\* C1: every main_lot row's inspected, rejected and rejection_cost equal the sums
\* over the sub-lot rows whose parentId is that row's id, and every product row's
\* equal the sums over the main_lot rows whose parentId is that row's id.
C1_RollupByParentId ==
  pc = "done" =>
    /\ \A i \in RowsOfType("main_lot") : \A f \in Metrics :
         Rows[i][f] = SumField(ChildrenOf(i, "sublot"), f)
    /\ \A i \in RowsOfType("product") : \A f \in Metrics :
         Rows[i][f] = SumField(ChildrenOf(i, "main_lot"), f)

\* C2: summary.total_inspected is the sum of inspected_qty over all input records
\* and summary.total_rejected the sum of rejected_qty, the records of the
\* "Unknown" buckets included.
C2_SummaryTotals ==
  pc = "done" =>
    /\ result.summary.total_inspected
         = SeqSum([i \in 1..Len(data) |-> data[i].inspected_qty])
    /\ result.summary.total_rejected
         = SeqSum([i \in 1..Len(data) |-> data[i].rejected_qty])

\* C2 witness: a finished report over an "Unknown" record and a record of a named
\* product, both with inspected and rejected pieces.
C2_Witness ==
  /\ pc = "done"
  /\ \E i, j \in 1..Len(data) :
       /\ data[i].item_code = << >> /\ data[i].inspected_qty > 0 /\ data[i].rejected_qty > 0
       /\ data[j].item_code # << >> /\ data[j].inspected_qty > 0 /\ data[j].rejected_qty > 0

\* C3: the defect-code counts of every main_lot row are, code by code, the sums of
\* those of its child sub-lot rows, and those of every product row the sums of
\* those of its child main_lot rows; a parent's codes are the union of its
\* children's codes.
C3_DefectRollup ==
  pc = "done" =>
    /\ \A i \in RowsOfType("main_lot") :
         /\ \A c \in Catalog : CodeCount(Rows[i], c) = SumCode(ChildrenOf(i, "sublot"), c)
         /\ DefectCodesOf(Rows[i])
              = UNION {DefectCodesOf(Rows[k]) : k \in ChildrenOf(i, "sublot")}
    /\ \A i \in RowsOfType("product") :
         /\ \A c \in Catalog : CodeCount(Rows[i], c) = SumCode(ChildrenOf(i, "main_lot"), c)
         /\ DefectCodesOf(Rows[i])
              = UNION {DefectCodesOf(Rows[k]) : k \in ChildrenOf(i, "main_lot")}

\* rate (in hundredths) is rejected / inspected * 100 rounded to two decimals
IsRoundedRate(rate, rejected, inspected) ==
  IF inspected > 0
  THEN /\ 2 * (rate * inspected - rejected * 10000) <= inspected
       /\ 2 * (rejected * 10000 - rate * inspected) <= inspected
  ELSE rate = 0

\* C4: at every output row, rate = round(rejected / inspected * 100, 2) of the
\* row's own rejected and inspected totals when inspected > 0, and 0 when
\* inspected = 0.
C4_RateFromOwnTotals ==
  pc = "done" =>
    \A i \in RowIdx : IsRoundedRate(Rows[i].rate, Rows[i].rejected, Rows[i].inspected)

\* C4 witness: a product row with 1 rejected of 6 inspected, rate 16.67, over a
\* sub-lot row of rate 33.33: neither the sum nor the mean of its children's rates.
C4_Witness ==
  /\ pc = "done"
  /\ \E i \in RowsOfType("product") :
       /\ Rows[i].inspected = 6 /\ Rows[i].rejected = 1 /\ Rows[i].rate = 1667
       /\ \E k \in RowsOfType("sublot") :
            Rows[k].product_code = Rows[i].product_code /\ Rows[k].rate = 3333

\* what the spec says of lot_no: split on the first "-", on the first "/" when
\* there is no "-"
ClaimedDelimiter(lot_no) ==
  IF Contains(lot_no, <<"-">>) THEN <<"-">> ELSE IF Contains(lot_no, <<"/">>) THEN <<"/">> ELSE << >>

ClaimedMainLot(lot_no) ==
  IF ClaimedDelimiter(lot_no) = << >> THEN lot_no
  ELSE SubSeq(lot_no, 1, FirstIndex(lot_no, ClaimedDelimiter(lot_no)) - 1)

ClaimedSubLot(lot_no) ==
  IF ClaimedDelimiter(lot_no) = << >> THEN <<"1">>
  ELSE SubSeq(lot_no, FirstIndex(lot_no, ClaimedDelimiter(lot_no)) + 1, Len(lot_no))

\* C5: for every record of either source, main_lot is the text of lot_no before
\* its first delimiter ("-", or "/" when there is no "-") and sub_lot_number the
\* text after that delimiter; without a delimiter main_lot = lot_no and
\* sub_lot_number = "1".
C5_SplitOnFirstDelimiter ==
  \A i \in 1..Len(data) :
    /\ data[i].main_lot = ClaimedMainLot(data[i].lot_no)
    /\ data[i].sublot_number = ClaimedSubLot(data[i].lot_no)

\* two records of one product and one main lot with different sub-lot numbers
TwoSublotsOfOneLot ==
  /\ Len(data) = 2
  /\ data[1].item_code = data[2].item_code
  /\ data[1].main_lot = data[2].main_lot
  /\ data[1].sublot_number # data[2].sublot_number

\* C6: two records with the same product and main_lot but different sub-lot
\* numbers give exactly one product row, one main_lot row and two distinct
\* sub-lot rows under it, the main_lot row's inspected, rejected and
\* rejection_cost being the sums of the two records' values.
C6_TwoSublotsOneMainLot ==
  (pc = "done" /\ TwoSublotsOfOneLot) =>
    /\ Cardinality(RowsOfType("product")) = 1
    /\ Cardinality(RowsOfType("main_lot")) = 1
    /\ Cardinality(RowsOfType("sublot")) = 2
    /\ Cardinality({Rows[k].id : k \in RowsOfType("sublot")}) = 2
    /\ \A m \in RowsOfType("main_lot") :
         /\ \A k \in RowsOfType("sublot") : IsChild(k, m)
         /\ \A p \in RowsOfType("product") : IsChild(m, p)
         /\ Rows[m].inspected = data[1].inspected_qty + data[2].inspected_qty
         /\ Rows[m].rejected = data[1].rejected_qty + data[2].rejected_qty
         /\ Rows[m].rejection_cost = data[1].rejection_cost + data[2].rejection_cost

\* C6 witness: a finished report over two such records, each with inspected and
\* rejected pieces and a rejection cost.
C6_Witness ==
  /\ pc = "done"
  /\ TwoSublotsOfOneLot
  /\ \A i \in 1..2 :
       data[i].inspected_qty > 0 /\ data[i].rejected_qty > 0 /\ data[i].rejection_cost > 0

\* C7: every output row carries a column for every code of defect_columns, with
\* value 0 when the node has no quantity for the code.
C7_EveryDefectColumnPresent ==
  pc = "done" =>
    \A i \in RowIdx : \A n \in 1..Len(result.defect_columns) :
      result.defect_columns[n] \in DOMAIN Rows[i]

\* parent links: no parentId on a product row, a product row's id on a main_lot
\* row, and on a sub-lot row the id of a main_lot row of the same product
ParentLinksConsistent ==
  /\ \A i \in RowsOfType("product") : "parentId" \notin DOMAIN Rows[i]
  /\ \A i \in RowIdx \ RowsOfType("product") : "parentId" \in DOMAIN Rows[i]
  /\ \A i \in RowsOfType("main_lot") : \E p \in RowsOfType("product") : IsChild(i, p)
  /\ \A i \in RowIdx \ (RowsOfType("product") \cup RowsOfType("main_lot")) :
       \E m \in RowsOfType("main_lot") :
         IsChild(i, m) /\ Rows[m].product_code = Rows[i].product_code

\* C8 as stated: every row's type is one of product, main_lot, sub_lot, and the
\* parent links are consistent.
C8_TypesAsStated ==
  pc = "done" =>
    /\ \A i \in RowIdx : Rows[i].type \in {"product", "main_lot", "sub_lot"}
    /\ ParentLinksConsistent

\* C8 amended: every row's type is one of product, main_lot, sublot; product rows
\* carry no parentId, every main_lot row's parentId is the id of a product row of
\* rows, and every sublot row's parentId the id of a main_lot row of rows with
\* the same product.
C8_TypesAndParentLinks ==
  pc = "done" =>
    /\ \A i \in RowIdx : Rows[i].type \in {"product", "main_lot", "sublot"}
    /\ ParentLinksConsistent

\* C8 witness: a finished report with rows of two products, each with a main_lot
\* row and a sublot row.
C8_Witness ==
  /\ pc = "done"
  /\ \E p, q \in RowsOfType("product") :
       /\ Rows[p].id # Rows[q].id
       /\ \A x \in {p, q} : \E m \in RowsOfType("main_lot") :
            IsChild(m, x) /\ \E k \in RowsOfType("sublot") : IsChild(k, m)

\* C9: normalization is idempotent: the code returned for a label normalizes to
\* itself (and the code recorded for a label is the one the function gives).
C9_Idempotent ==
  /\ Len(norm.codes) >= 1 => norm.codes[1] = normalize_defect_type(norm.label)
  /\ Len(norm.codes) = 2 => norm.codes[2] = norm.codes[1]

\* the keywords of all rules
AllKeywords ==
  {<<"D","E","F","E","C","T">>, <<"B","E","N","D">>, <<"B","D">>, <<"B","A","C","K","R","I","N","D">>, <<"B","K">>, <<"B","L","I","S","T","E","R">>, <<"B","L">>, <<"B","L","A","C","K"," ","M","A","R","K">>,
   <<"B","M">>, <<"B","U","N","E">>, <<"B","N">>, <<"B","O","N","D","I","N","G">>, <<"B","O","N","D">>, <<"B","O">>, <<"B","U","B","B","L","E">>, <<"B","U">>, <<"C","U","T"," ","M","A","R","K">>,
   <<"C","M">>, <<"C","O","L","O","U","R"," ","V","A","R","I","A","T","I","O","N">>, <<"C","V">>, <<"D","E","F","L","A","S","H">>, <<"D","F">>, <<"D","I","P","R","E","S","S","I","O","N">>, <<"D","P">>,
   <<"F","L","O","W">>, <<"F","L">>, <<" ","F"," ">>, <<"F","O","R","E","I","G","N"," ","P","A","R","T","I","C","L","E">>, <<"F","P">>, <<"S","T","A","I","N">>, <<"S","U","R","F","A","C","E"," ","D","E","F","E","C","T">>,
   <<"S","D">>, <<"C","E","L","L">>, <<"S","H","E","L","L">>, <<"D","A","M","A","G","E">>, <<"S","H">>, <<"B","U","R","S","T">>, <<"T","E","A","R">>, <<" ","T"," ">>, <<"T","O","O","L"," ","M","A","R","K">>,
   <<"T","M">>, <<"U","N","D","E","R"," ","F","I","L","L">>, <<"U","F">>}

\* the label classes the spec names, read off the upper-cased label
LabelClasses(u) ==
  (IF Contains(u, <<"D","E","F","E","C","T">>) /\ ~ContainsAny(u, {<<"S","U","R","F","A","C","E">>, <<"S","T","A","I","N">>}) THEN {"DT"} ELSE {})
  \cup (IF Contains(u, <<"B","E","N","D">>) THEN {"BD"} ELSE {})
  \cup (IF Contains(u, <<"B","L","I","S","T","E","R">>) THEN {"BL"} ELSE {})
  \cup (IF ContainsAny(u, {<<"S","T","A","I","N">>, <<"S","U","R","F","A","C","E"," ","D","E","F","E","C","T">>}) THEN {"SD"} ELSE {})
  \cup (IF ContainsAny(u, {<<"B","U","R","S","T">>, <<"T","E","A","R">>}) THEN {"T"} ELSE {})

MatchesNoRule(u) ==
  ~ContainsAny(u, AllKeywords) /\ ~EndsWith(u, <<" ","F">>) /\ u # <<"T">>

\* C10: a generic "defect" label maps to DT, a bend label to BD, a blister label
\* to BL, a stain / surface-defect label to SD, a burst or tear label to T, and a
\* label matching no keyword rule to OTH.
C10_KeywordCodes ==
  Len(norm.codes) >= 1 =>
    LET u == Strip(Upper(norm.label))
    IN  /\ \A c \in Catalog : LabelClasses(u) = {c} => norm.codes[1] = c
        /\ MatchesNoRule(u) => norm.codes[1] = "OTH"

\* C11: an empty (or null) label gets the code OTH, and whatever the label, the
\* code normalize_defect_type returns is one of the twenty codes of the catalog.
C11_AlwaysACatalogCode ==
  Len(norm.codes) >= 1 =>
    /\ norm.codes[1] \in
         {"DT", "BD", "BK", "BL", "BM", "BN", "BO", "BU", "CM", "CV", "DF", "DP",
          "F", "FP", "SD", "SH", "T", "TM", "UF", "OTH"}
    /\ norm.label = << >> => norm.codes[1] = "OTH"

\* the empty label has been normalized
C11_Witness == Len(norm.codes) >= 1 /\ norm.label = << >> /\ norm.codes[1] = "OTH"

\* the keyword groups in the order normalize_defect_type tries them
GroupOrder ==
  <<"DT", "BD", "BK", "BL", "BM", "BN", "BO", "BU", "CM", "CV", "DF", "DP",
    "F", "FP", "SD", "SH", "T", "TM", "UF">>

\* the upper-cased, stripped label u matches the keyword group of code c
GroupMatches(c, u) ==
  CASE c = "DT" -> Contains(u, <<"D","E","F","E","C","T">>) /\ ~ContainsAny(u, {<<"S","U","R","F","A","C","E">>, <<"S","T","A","I","N">>})
    [] c = "BD" -> ContainsAny(u, {<<"B","E","N","D">>, <<"B","D">>})
    [] c = "BK" -> ContainsAny(u, {<<"B","A","C","K","R","I","N","D">>, <<"B","K">>})
    [] c = "BL" -> ContainsAny(u, {<<"B","L","I","S","T","E","R">>, <<"B","L">>}) /\ ~Contains(u, <<"B","U","B","B","L","E">>)
    [] c = "BM" -> ContainsAny(u, {<<"B","L","A","C","K"," ","M","A","R","K">>, <<"B","M">>})
    [] c = "BN" -> ContainsAny(u, {<<"B","U","N","E">>, <<"B","N">>})
    [] c = "BO" -> ContainsAny(u, {<<"B","O","N","D","I","N","G">>, <<"B","O","N","D">>, <<"B","O">>})
    [] c = "BU" -> ContainsAny(u, {<<"B","U","B","B","L","E">>, <<"B","U">>})
    [] c = "CM" -> ContainsAny(u, {<<"C","U","T"," ","M","A","R","K">>, <<"C","M">>})
    [] c = "CV" -> ContainsAny(u, {<<"C","O","L","O","U","R"," ","V","A","R","I","A","T","I","O","N">>, <<"C","V">>})
    [] c = "DF" -> ContainsAny(u, {<<"D","E","F","L","A","S","H">>, <<"D","F">>})
    [] c = "DP" -> ContainsAny(u, {<<"D","I","P","R","E","S","S","I","O","N">>, <<"D","P">>})
    [] c = "F"  -> ContainsAny(u, {<<"F","L","O","W">>, <<"F","L">>, <<" ","F"," ">>}) \/ EndsWith(u, <<" ","F">>)
    [] c = "FP" -> ContainsAny(u, {<<"F","O","R","E","I","G","N"," ","P","A","R","T","I","C","L","E">>, <<"F","P">>})
    [] c = "SD" -> ContainsAny(u, {<<"S","T","A","I","N">>, <<"S","U","R","F","A","C","E"," ","D","E","F","E","C","T">>, <<"S","D">>})
    [] c = "SH" -> ContainsAny(u, {<<"C","E","L","L">>, <<"S","H","E","L","L">>, <<"D","A","M","A","G","E">>, <<"S","H">>})
    [] c = "T"  -> ContainsAny(u, {<<"B","U","R","S","T">>, <<"T","E","A","R">>, <<" ","T"," ">>}) \/ u = <<"T">>
    [] c = "TM" -> ContainsAny(u, {<<"T","O","O","L"," ","M","A","R","K">>, <<"T","M">>})
    [] c = "UF" -> ContainsAny(u, {<<"U","N","D","E","R"," ","F","I","L","L">>, <<"U","F">>})

\* the code of the first group of GroupOrder that matches u, OTH when none does
FirstMatchingGroup(u) ==
  LET hits == {i \in 1..Len(GroupOrder) : GroupMatches(GroupOrder[i], u)}
  IN  IF hits = {} THEN "OTH"
      ELSE GroupOrder[CHOOSE i \in hits : \A j \in hits : i <= j]

\* the label with every letter in upper case
Folded(s) == [i \in 1..Len(s) |-> UpperChar(s[i])]

\* two labels that differ in the case of their letters only
SameIgnoringCase(a, b) == Len(a) = Len(b) /\ Folded(a) = Folded(b)

\* C19: matching ignores the case of the label and the first matching keyword
\* group, in the order of the function, decides the code; "BLISTER" in any case
\* gives BL and "BUBBLE" in any case gives BU.
C19_CaseInsensitiveFirstMatch ==
  Len(norm.codes) >= 1 =>
    /\ \A l \in LabelInputs :
         SameIgnoringCase(l, norm.label) => normalize_defect_type(l) = norm.codes[1]
    /\ norm.codes[1] = FirstMatchingGroup(Strip(Folded(norm.label)))
    /\ norm.label \in {<<"B","L","I","S","T","E","R">>, <<"B","l","i","s","t","e","r">>, <<"b","l","i","s","t","e","r">>} => norm.codes[1] = "BL"
    /\ norm.label \in {<<"B","U","B","B","L","E">>, <<"B","u","b","b","l","e">>, <<"b","u","b","b","l","e">>} => norm.codes[1] = "BU"

\* a lower-case label and a label matching two groups have been normalized
C19_Witness ==
  /\ Len(norm.codes) >= 1
  /\ \/ norm.label = <<"b","l","i","s","t","e","r">> /\ norm.codes[1] = "BL"
     \/ norm.label = <<"b","u","b","b","l","e">> /\ norm.codes[1] = "BU"

\* C13: for an empty record list the report has no rows, no defect columns and a
\* summary of total_products = 0, total_inspected = 0 and total_rejected = 0.
C13_EmptyInput ==
  (pc = "done" /\ data = << >>) =>
    /\ result.rows = << >>
    /\ result.defect_columns = << >>
    /\ result.summary = [total_products |-> 0, total_inspected |-> 0, total_rejected |-> 0]

\* the report of an empty record list has been returned
C13_Witness == pc = "done" /\ Len(data) = 0 /\ idx = 0 /\ Len(result.rows) = 0

\* the code point order of two upper-case letters, and of two codes as strings
CharRank(c) == CHOOSE i \in 1..26 : UpperLetters[i] = c

TextLess(a, b) ==
  \E k \in 1..(Len(b)) :
    /\ \A j \in 1..(k - 1) : j <= Len(a) /\ a[j] = b[j]
    /\ \/ k = Len(a) + 1
       \/ k <= Len(a) /\ CharRank(a[k]) < CharRank(b[k])

CodeLess(c, d) == TextLess(CodeText[c], CodeText[d])

\* C14: defect_columns is strictly ascending (so sorted and free of duplicates)
\* and holds exactly the codes that are a defect column of some output row.
C14_DefectColumns ==
  pc = "done" =>
    LET cols == result.defect_columns
    IN  /\ \A i, j \in 1..Len(cols) : i < j => CodeLess(cols[i], cols[j])
        /\ {cols[i] : i \in 1..Len(cols)} = UNION {DefectCodesOf(Rows[k]) : k \in RowIdx}

\* a report with three defect columns has been returned
C14_Witness == pc = "done" /\ result.defect_columns = <<"BD", "BU", "T">>

\* the records of the input, the product and main lot a record is grouped under
\* and the id of its sub-lot row
RecIdx == 1..Len(data)
RecProduct(k) == IF data[k].item_code = << >> THEN <<"U","n","k","n","o","w","n">> ELSE data[k].item_code
RecMainLot(k) == IF data[k].main_lot = << >> THEN <<"U","n","k","n","o","w","n">> ELSE data[k].main_lot
RecSublotId(k) ==
  <<"s","l","_">> \o RecProduct(k) \o <<"_">> \o RecMainLot(k) \o <<"_">> \o data[k].sublot_number

\* the records under the node of row i
RecordsUnder(i) ==
  {k \in RecIdx :
     /\ Rows[i].product_code = RecProduct(k)
     /\ Rows[i].type # "product" => Rows[i].main_lot = RecMainLot(k)
     /\ Rows[i].type = "sublot" => Rows[i].id = RecSublotId(k)}

\* the well-formed defect pairs of record k, and their quantities for code c
PairsOf(k) == (CHOOSE c \in DetailCases : c.details = data[k].defect_details).pairs
QtyOfCode(pairs, c) ==
  SeqSum([j \in 1..Len(pairs) |-> IF pairs[j].code = c THEN pairs[j].qty ELSE 0])

SumOverRecords(K, F(_)) == SeqSum([k \in RecIdx |-> IF k \in K THEN F(k) ELSE 0])

\* the sum of all defect counts of a row
DefectTotal(row) ==
  SeqSum([j \in 1..Len(CatalogSorted) |-> CodeCount(row, CatalogSorted[j])])

\* C12: every defect pair is counted under exactly one code: at every node the
\* defect counts add up to the sum of the quantities of the defect pairs of the
\* records under the node; a "Bubble Defect" label is not counted twice.
C12_EachPairCountedOnce ==
  pc = "done" =>
    \A i \in RowIdx :
      LET PairQty(k) == PairTotal(PairsOf(k))
      IN  DefectTotal(Rows[i]) = SumOverRecords(RecordsUnder(i), PairQty)

\* a "Bubble Defect" pair has been aggregated
C12_Witness ==
  /\ pc = "done"
  /\ \E k \in RecIdx : data[k].defect_details = <<"B","u","b","b","l","e"," ","D","e","f","e","c","t",":","2">>
  /\ \E i \in RowIdx : /\ Rows[i].type = "sublot"
                        /\ DefectCodesOf(Rows[i]) = {"DT"}
                        /\ Rows[i]["DT"] = 2

InspectedOf(k) == data[k].inspected_qty
RejectedOf(k) == data[k].rejected_qty

\* C15: the records without product code are aggregated in a product row whose
\* product_code is "Unknown", and the records of a product without main lot in
\* a main_lot row of that product labelled "Unknown".
C15_UnknownBuckets ==
  pc = "done" =>
    \A k \in RecIdx :
      /\ data[k].item_code = << >> =>
           LET K == {j \in RecIdx : data[j].item_code = << >>}
           IN  \E i \in RowsOfType("product") :
                 /\ Rows[i].product_code = <<"U","n","k","n","o","w","n">>
                 /\ Rows[i].inspected = SumOverRecords(K, InspectedOf)
                 /\ Rows[i].rejected = SumOverRecords(K, RejectedOf)
      /\ data[k].main_lot = << >> =>
           LET K == {j \in RecIdx : /\ data[j].main_lot = << >>
                                    /\ data[j].item_code = data[k].item_code}
           IN  \E i \in RowsOfType("main_lot") :
                 /\ Rows[i].label = <<"U","n","k","n","o","w","n">>
                 /\ Rows[i].main_lot = <<"U","n","k","n","o","w","n">>
                 /\ Rows[i].product_code = RecProduct(k)
                 /\ Rows[i].inspected = SumOverRecords(K, InspectedOf)
                 /\ Rows[i].rejected = SumOverRecords(K, RejectedOf)

\* a record without product code and a record without main lot have been aggregated
C15_Witness ==
  /\ pc = "done"
  /\ \E k \in RecIdx : data[k].item_code = << >> /\ data[k].rejected_qty > 0
  /\ \E k \in RecIdx : data[k].main_lot = << >> /\ data[k].item_code # << >>
  /\ \E i \in RowsOfType("product") : Rows[i].product_code = <<"U","n","k","n","o","w","n">>
  /\ \E i \in RowsOfType("main_lot") : Rows[i].label = <<"U","n","k","n","o","w","n">>

\* the codes of the well-formed defect pairs of the records in K
PairCodes(K) == UNION {{PairsOf(k)[j].code : j \in 1..Len(PairsOf(k))} : k \in K}

\* C16: a defect_details entry without quantity or with a quantity that is not a
\* number is skipped: the defect columns of every row, and defect_columns, hold
\* the codes of the well-formed pairs only, and the counts are those of the
\* well-formed pairs.
C16_MalformedSkipped ==
  pc = "done" =>
    /\ \A i \in RowIdx :
         /\ DefectCodesOf(Rows[i]) = PairCodes(RecordsUnder(i))
         /\ \A c \in Catalog :
              LET Qty(k) == QtyOfCode(PairsOf(k), c)
              IN  CodeCount(Rows[i], c) = SumOverRecords(RecordsUnder(i), Qty)
    /\ {result.defect_columns[j] : j \in 1..Len(result.defect_columns)} = PairCodes(RecIdx)

\* the records whose defect_details name one code in two entries
HasRepeatedCode(k) ==
  \E a, b \in 1..Len(PairsOf(k)) : a < b /\ PairsOf(k)[a].code = PairsOf(k)[b].code

\* C20: when a record names a label twice, or two labels of one code, the
\* quantities are added: at the sub-lot, main-lot and product rows over such a
\* record the count of every code is the sum of the quantities of all the
\* well-formed pairs of that code of the records under the row.
C20_RepeatedLabelsAdded ==
  pc = "done" =>
    \A i \in RowIdx :
      (\E k \in RecordsUnder(i) : HasRepeatedCode(k)) =>
        \A c \in Catalog :
          LET Qty(k) == QtyOfCode(PairsOf(k), c)
          IN  CodeCount(Rows[i], c) = SumOverRecords(RecordsUnder(i), Qty)

\* a record naming Bend twice and a record naming Bend and BD lie under one
\* product row, which counts 6 for BD
C20_Witness ==
  /\ pc = "done"
  /\ \E k \in RecIdx : data[k].defect_details = <<"B","e","n","d",":","1",";"," ","B","e","n","d",":","2">>
  /\ \E k \in RecIdx : data[k].defect_details = <<"B","e","n","d",":","1",";"," ","B","D",":","2">>
  /\ \E i \in RowsOfType("product") : CodeCount(Rows[i], "BD") = 6

\* a report of one record whose lot_no is <main>-<n> and which has one defect
SingleRecordCase ==
  /\ pc = "done"
  /\ Len(db) = 1
  /\ Contains(db[1].lot_no, <<"-">>)
  /\ Len(db[1].items) = 1

\* one row of each type; the sub-lot row with the record's lot_no, <main>, rate
\* and defect count; the same inspected, rejected, rate and defect counts on the
\* main_lot and the product row
SingleRecordRows ==
  LET qty == db[1].items[1].rejected_qty
      code == normalize_defect_type(db[1].items[1].type_of_defect)
  IN  /\ Len(Rows) = 3
      /\ \A t \in {"product", "main_lot", "sublot"} : Cardinality(RowsOfType(t)) = 1
      /\ \A i \in RowsOfType("sublot") :
           /\ Rows[i].lot_no = db[1].lot_no
           /\ Rows[i].main_lot = ClaimedMainLot(db[1].lot_no)
           /\ Rows[i].inspected = db[1].inspected_qty
           /\ Rows[i].rejected = qty
           /\ Rows[i].rate = Rate(qty, db[1].inspected_qty)
           /\ DefectCodesOf(Rows[i]) = {code}
           /\ Rows[i][code] = qty
      /\ \A i, k \in RowIdx :
           /\ Rows[i].inspected = Rows[k].inspected
           /\ Rows[i].rejected = Rows[k].rejected
           /\ Rows[i].rate = Rows[k].rate
           /\ \A c \in Catalog : CodeCount(Rows[i], c) = CodeCount(Rows[k], c)

\* C18 as stated: for a single record with lot_no <main>-<n> and one defect pair
\* there is one product, one main_lot and one sub-lot row; the sub-lot row
\* carries lot_no, main_lot = <main>, sub_lot_number = <n>, the rate and the
\* defect count; the main_lot and product rows show the same totals.
C18_SubLotNumberField ==
  SingleRecordCase =>
    /\ SingleRecordRows
    /\ \A i \in RowsOfType("sublot") :
         \E f \in {"sub_lot_number", "sublot_number"} :
           f \in DOMAIN Rows[i] /\ Rows[i][f] = ClaimedSubLot(db[1].lot_no)

\* C18 amended: the same, except that the sub-lot row has no field for the
\* sub-lot number: <n> is the last part of the row's id only.
C18_SingleRecord ==
  SingleRecordCase =>
    /\ SingleRecordRows
    /\ \A i \in RowsOfType("sublot") :
         /\ Rows[i].id = <<"s","l","_">> \o db[1].product_ref_no \o <<"_">>
                           \o ClaimedMainLot(db[1].lot_no) \o <<"_">>
                           \o ClaimedSubLot(db[1].lot_no)
         /\ {"sub_lot_number", "sublot_number"} \cap DOMAIN Rows[i] = {}

\* the report of a single record of lot C-1 with one rejected Bend
C18_Witness ==
  /\ SingleRecordCase
  /\ db[1].lot_no = <<"C","-","1">>
  /\ db[1].inspected_qty = 3
  /\ \E i \in RowsOfType("sublot") : Rows[i].rate = 3333 /\ CodeCount(Rows[i], "BD") = 1

\* C17: the function keeps no state between calls: a call whose input equals the
\* input of an earlier call returns what that call returned, whatever calls
\* were made in between.
C17_EqualInputEqualOutput ==
  (pc = "done" /\ earlier.kept /\ earlier.input = data) => result = earlier.output

\* a later call of a non-empty input the caller kept from an earlier call has
\* returned
C17_Witness ==
  /\ pc = "done"
  /\ earlier.kept
  /\ earlier.input = data
  /\ Len(data) = 2
  /\ Len(result.rows) > 0

\* C26: the ids of the rows of a report are pairwise distinct, also when product
\* codes, main lots or sub-lot numbers hold the "_" the ids are joined with, so
\* that a parentId names exactly one row.
C26_DistinctIds ==
  pc = "done" =>
    /\ \A i, k \in RowIdx : i # k => Rows[i].id # Rows[k].id
    /\ \A k \in RowIdx :
         "parentId" \in DOMAIN Rows[k] => Cardinality({i \in RowIdx : IsChild(k, i)}) = 1

\* the dictionaries the loop builds from a record list
RECURSIVE GroupsOf(_)
GroupsOf(records) ==
  IF records = << >> THEN << >>
  ELSE ProcessRowInto(GroupsOf(SubSeq(records, 1, Len(records) - 1)),
                      records[Len(records)])

\* the totals of a node: its place, inspected, rejected, cost, rate and defect counts
NodeTotals(row) ==
  [type           |-> row.type,
   id             |-> row.id,
   inspected      |-> row.inspected,
   rejected       |-> row.rejected,
   rejection_cost |-> row.rejection_cost,
   rate           |-> row.rate,
   defects        |-> [c \in DefectCodesOf(row) |-> row[c]]]

AllNodeTotals(rows) == {NodeTotals(rows[i]) : i \in 1..Len(rows)}

C22_SublotRowRetains ==
  pc = "done" =>
    \A i \in RowsOfType("sublot") :
      \E k \in RecordsUnder(i) :
        /\ Rows[i].lot_no = data[k].lot_no
        /\ Rows[i].inspector = data[k].inspector_code
        /\ Rows[i].inspection_type = data[k].inspection_type
        /\ Rows[i].date = data[k].posting_date
        /\ \E f \in {"document_name", "source_document_id"} :
             f \in DOMAIN Rows[i] /\ Rows[i][f] = data[k].document_name

\* C23: every optional filter that is given is applied: with an item code, an
\* inspector or an inspection type in the filters, only records with that item
\* code, inspector or inspection type are fetched for the aggregation, and only
\* records of the from_date / to_date range.
C23_FiltersApplied ==
  pc = "loop" =>
    \A i \in 1..Len(data) :
      /\ filters.from_date <= data[i].posting_date
      /\ data[i].posting_date <= filters.to_date
      /\ filters.item_code # << >> => data[i].item_code = filters.item_code
      /\ filters.inspection_type # "" => data[i].inspection_type = filters.inspection_type
      /\ filters.inspector # "" => data[i].inspector_code = filters.inspector

\* the active configurations of the table for the inspection type that pass Pass
ActiveConfigs(table, inspection_type, Pass(_)) ==
  { ThresholdFields(table[i]) :
      i \in { j \in 1..Len(table) : /\ table[j].inspection_type = inspection_type
                                     /\ table[j].is_active = 1
                                     /\ Pass(table[j]) } }

\* what the priority product > item group > global > defaults allows a call to return
AllowedThresholds(table, inspection_type, product_ref_no, item_group) ==
  LET OfProduct(c) == c.product_ref_no = product_ref_no
      OfGroup(c) == c.item_group = item_group
      Global(c) == c.product_ref_no = "" /\ c.item_group = ""
      product == ActiveConfigs(table, inspection_type, OfProduct)
      group == ActiveConfigs(table, inspection_type, OfGroup)
      global == ActiveConfigs(table, inspection_type, Global)
  IN  IF product_ref_no # "" /\ product # {} THEN product
      ELSE IF item_group # "" /\ group # {} THEN group
      ELSE IF global # {} THEN global
      ELSE {[threshold_percentage |-> 50, warning_threshold |-> 30,
             critical_threshold |-> 100]}

C29_DatesValidated ==
  \A w \in Workers :
    (procs[w] # Idle /\ procs[w].op = "validate_dates" /\ procs[w].pc = "done")
    => LET car_date == procs[w].doc.car_date
           target_date == procs[w].doc.target_date
       IN  ( \/ (Truthy(car_date) /\ car_date.day > Today)
             \/ (Truthy(car_date) /\ Truthy(target_date)
                   /\ target_date.day < car_date.day) )
           => procs[w].ret.raised

\* C27: update_car on a CAR that is submitted, cancelled or not stored ends with
\* an error and leaves the table unchanged; on a draft it changes nothing but
\* the updatable fields and the five-why rows of that draft
C27_UpdateOnlyDrafts ==
  [][\A w \in Workers :
       (procs[w] = Idle /\ procs'[w] # Idle /\ procs'[w].op = "update_car")
       => LET n == procs'[w].car_name
          IN  IF ~CarExists(cars, n) \/ cars[n].docstatus # 0
              THEN procs'[w].error /\ cars' = cars
              ELSE /\ Len(cars') = Len(cars)
                   /\ \A i \in 1..Len(cars) : i # n => cars'[i] = cars[i]
                   /\ DOMAIN cars'[n] = DOMAIN cars[n]
                   /\ \A f \in DOMAIN cars[n] \ (updatable_fields \cup {"five_why_analysis"}) :
                        cars'[n][f] = cars[n][f]]_vars

\* update_car was called on a submitted CAR and ended with an error
C27_Witness ==
  \E w \in Workers :
    /\ procs[w] # Idle
    /\ procs[w].op = "update_car"
    /\ procs[w].error
    /\ CarExists(cars, procs[w].car_name)
    /\ cars[procs[w].car_name].docstatus = 1

\* C28: for every inspection entry at most one CAR that is not cancelled is stored
C28_OneCarPerInspection ==
  \A e \in InspectionEntries :
    Cardinality({ i \in 1..Len(cars) :
                    cars[i].inspection_entry = e /\ cars[i].docstatus # 2 }) <= 1

\* C30: every submitted CAR has a corrective_action that is not empty
C30_SubmittedHasAction ==
  \A i \in 1..Len(cars) : cars[i].docstatus = 1 => cars[i].corrective_action # ""

\* one CAR is submitted, and the submit of a draft without corrective_action
\* was refused
C30_Witness ==
  /\ \E i \in 1..Len(cars) : cars[i].docstatus = 1
  /\ \E w \in Workers :
       /\ procs[w] # Idle
       /\ procs[w].op = "submit"
       /\ procs[w].error
       /\ cars[procs[w].car_name].docstatus = 0
       /\ cars[procs[w].car_name].corrective_action = ""

\* C24: at most one Daily Rejection Report is stored per report_date, also when
\* two calls of generate_comprehensive_daily_report for the same date interleave
\* between the existence check and the insert
C24_OneReportPerDate ==
  \A i, j \in 1..Len(reports) :
    reports[i].report_date = reports[j].report_date => i = j

====
